---- MODULE Spec2Model ----
(***************************************************************************)
(* Player valuation pipeline of TradeAI:                                   *)
(*   backend/model_service.py  PlayerValuationService                      *)
(* The service's fields are the state; load_model_and_data, is_loaded,     *)
(* create_player_features, predict_fantasy_points and analyze_trade_impact *)
(* are the actions.  backend/espn_service.py calculate_trade_value and the  *)
(* analyze-trade endpoint of backend/simple_main.py are the heuristic      *)
(* trade analysis (SpecHeuristic).                                         *)
(*                                                                         *)
(* Numbers are exact rationals [n |-> numerator, d |-> denominator > 0];   *)
(* a missing float is NaN; Python's None is None.  Python list indices are *)
(* 0-based, the sequences here are 1-based.                                *)
(*                                                                         *)
(* Spec is the service as backend/main.py drives it: construction, one     *)
(* load_model_and_data, then requests.  StandardScaler.fit cannot convert  *)
(* a 'position' column of strings, so under Spec a load that succeeds      *)
(* leaves position_stats empty.  SpecProfile adds a caller that, after a   *)
(* successful load, calls _calculate_position_stats with the frame that    *)
(* still carries its position labels; it is the specification under which  *)
(* the profile path of create_player_features is exercised.                *)
(***************************************************************************)
EXTENDS Integers, Sequences, FiniteSets, TLC

VARIABLES
    model_path,        \* what the file at self.model_path holds
    data_path,         \* what the file at self.data_path holds
    model,             \* self.model
    scaler,            \* self.scaler
    feature_columns,   \* self.feature_columns
    position_stats,    \* self.position_stats
    load_result,       \* what load_model_and_data returned, "pending" before the call
    ret,               \* outcome of the latest call on the service
    inflight,          \* the requests being served, each with its local values
    current_league     \* ESPNService.current_league

vars == <<model_path, data_path, model, scaler, feature_columns, position_stats,
          load_result, ret, inflight, current_league>>

-----------------------------------------------------------------------------
(* Values *)

None == [none |-> TRUE]
NaN == [nan |-> TRUE]

\* value is computed once and then named, as by an assignment
Let(value, Body(_)) == CHOOSE r \in { Body(v) : v \in {value} } : TRUE

Let2(a, b, Body(_, _)) == CHOOSE r \in { Body(x, y) : x \in {a}, y \in {b} } : TRUE

Abs(x) == IF x < 0 THEN -x ELSE x

RECURSIVE GCD(_, _)
GCD(a, b) == IF b = 0 THEN a ELSE Let(a % b, LAMBDA r : GCD(b, r))

\* the rational n/d in lowest terms, d > 0
Rat(n, d) ==
    Let2(n, d, LAMBDA x, y :
        Let(GCD(Abs(x), Abs(y)), LAMBDA g :
            IF y < 0 THEN [n |-> -(x \div g), d |-> -(y \div g)]
                     ELSE [n |-> x \div g, d |-> y \div g]))

Num(i) == [n |-> i, d |-> 1]

IsNaN(x) == x = NaN

RMul(a, b) ==
    Let2(a, b, LAMBDA x, y :
        IF IsNaN(x) \/ IsNaN(y) THEN NaN ELSE Rat(x.n * y.n, x.d * y.d))

RAdd(a, b) ==
    Let2(a, b, LAMBDA x, y :
        IF IsNaN(x) \/ IsNaN(y) THEN NaN ELSE Rat(x.n * y.d + y.n * x.d, x.d * y.d))

RSub(a, b) == RAdd(a, RMul(Num(-1), b))

RDiv(a, b) ==
    Let2(a, b, LAMBDA x, y :
        IF IsNaN(x) \/ IsNaN(y) THEN NaN ELSE Rat(x.n * y.d, x.d * y.n))

RECURSIVE RSumTo(_, _)
RSumTo(s, k) == IF k = 0 THEN Num(0) ELSE RAdd(RSumTo(s, k - 1), s[k])

\* the sum of a sequence of numbers, left to right
RSum(s) == Let(s, LAMBDA v : RSumTo(v, Len(v)))

\* list.index(name): the first position holding name
Index(columns, name) == CHOOSE i \in 1..Len(columns) :
                            /\ columns[i] = name
                            /\ \A j \in 1..(i - 1) : columns[j] # name

Contains(columns, name) == \E i \in 1..Len(columns) : columns[i] = name

\* dict.get(key, default)
Get(dict, key, default) == IF key \in DOMAIN dict THEN dict[key] ELSE default

NominalProjection == 150
FullSeasonGames == 17

-----------------------------------------------------------------------------
(* The historical dataset: a frame of named columns and rows *)

TargetColumns == {"fantasy_points", "fantasy_points_ppr"}

PositionFlags == <<"is_qb", "is_rb", "is_wr", "is_te">>

PrimaryPositions == <<"QB", "RB", "WR", "TE">>

StatColumns == <<"passing_yards", "passing_tds", "completions", "attempts",
                 "interceptions", "rushing_yards", "rushing_tds", "rushing_attempts",
                 "receiving_yards", "receiving_tds", "receptions", "targets">>

\* column orders of the frames considered
WideColumns == <<"games">> \o PositionFlags \o StatColumns
                   \o <<"fantasy_points", "fantasy_points_ppr">>

ColumnOrders == {
    WideColumns,
    <<"position">> \o WideColumns,
    <<"receiving_yards", "fantasy_points", "targets", "is_rb">>,
    <<"fantasy_points_ppr", "interceptions", "position", "games", "receptions">>,
    <<"fantasy_points", "fantasy_points_ppr">> }

MaxRows == 2

\* the player-seasons a frame may hold: position, the value v of its statistics,
\* and the one statistic that is missing (NaN) in the row
RowPool == {
    [position |-> "QB", v |-> 3,  missing |-> "none"],
    [position |-> "RB", v |-> 1,  missing |-> "none"],
    [position |-> "RB", v |-> 2,  missing |-> "receptions"],
    [position |-> "WR", v |-> -2, missing |-> "none"],
    [position |-> "K",  v |-> 5,  missing |-> "none"] }

Frames == { [columns |-> c, rows |-> r] :
                c \in ColumnOrders,
                r \in { q \in SUBSET RowPool : Cardinality(q) <= MaxRows } }

\* df[column] at one row; the indicator columns are derived from the position
Cell(row, column) ==
    CASE column = "position" -> row.position
      [] column = "is_qb" -> Num(IF row.position = "QB" THEN 1 ELSE 0)
      [] column = "is_rb" -> Num(IF row.position = "RB" THEN 1 ELSE 0)
      [] column = "is_wr" -> Num(IF row.position = "WR" THEN 1 ELSE 0)
      [] column = "is_te" -> Num(IF row.position = "TE" THEN 1 ELSE 0)
      [] column = "games" -> Num(16)
      [] column = "fantasy_points" -> Num(10 * row.v)
      [] column = "fantasy_points_ppr" -> Num(12 * row.v)
      [] OTHER -> IF column = row.missing THEN NaN ELSE Num(row.v)

\* the trained models an artifact may hold: prediction = b + w * sum of the
\* scaled entries; a model with w = 0 predicts the same value for every player
Models == { [w |-> 1, b |-> 0], [w |-> 2, b |-> 5], [w |-> 0, b |-> 5],
            [w |-> 0, b |-> 10] }

Missing == [missing |-> TRUE]

\* no call is in progress and the caller holds no result
Idle == [op |-> "idle"]

-----------------------------------------------------------------------------
(* Startup *)

\* mutant of FeatureColumns: only fantasy_points is left out
FeatureColumnsKeepsPpr(df) == SelectSeq(df.columns, LAMBDA c : c # "fantasy_points")

\* [col for col in df.columns if col not in ['fantasy_points', 'fantasy_points_ppr']]
FeatureColumns(df) == SelectSeq(df.columns, LAMBDA c : c \notin TargetColumns)

\* StandardScaler().fit(df[feature_columns]) raises on a frame with no row, with
\* no column, or with a column that does not convert to float (the position
\* labels 'QB', 'RB', ...)
ScalerFitRaises(df, columns) ==
    \/ df.rows = {}
    \/ columns = <<>>
    \/ Contains(columns, "position")


UnfittedScaler == [fitted |-> FALSE]

\* the square root of a rational, rounded up to a whole number
RSqrt(x) ==
    Let(x, LAMBDA v :
        IF IsNaN(v) THEN NaN
        ELSE Num(CHOOSE k \in 0..v.n :
                    k * k * v.d >= v.n /\ (k = 0 \/ (k - 1) * (k - 1) * v.d < v.n)))

RECURSIVE SumSquares(_, _, _)
SumSquares(rows, column, mean) ==
    IF rows = {} THEN Num(0)
    ELSE Let2(CHOOSE r \in rows : TRUE, mean, LAMBDA r, m :
             Let2(RSub(Cell(r, column), m), rows \ {r}, LAMBDA dev, rest :
                 RAdd(RMul(dev, dev), SumSquares(rest, column, m))))

RECURSIVE SumOver(_, _)
SumOver(rows, column) ==
    IF rows = {} THEN Num(0)
    ELSE Let(CHOOSE r \in rows : TRUE, LAMBDA r :
             Let(rows \ {r}, LAMBDA rest :
                 RAdd(Cell(r, column), SumOver(rest, column))))

\* groupby(...).mean() of one column over one group: missing values are skipped,
\* a column with no value left is NaN
Mean(rows, column) ==
    Let({ r \in rows : ~IsNaN(Cell(r, column)) }, LAMBDA present :
        IF present = {} THEN NaN
        ELSE RDiv(SumOver(present, column), Num(Cardinality(present))))

\* the variance StandardScaler keeps for one column (missing values skipped)
Variance(rows, column) ==
    Let({ r \in rows : ~IsNaN(Cell(r, column)) }, LAMBDA present :
        IF present = {} THEN NaN
        ELSE RDiv(SumSquares(present, column, Mean(present, column)),
                  Num(Cardinality(present))))

\* scale_: the standard deviation, 1 for a constant column
ScaleOf(rows, column) ==
    Let(Variance(rows, column), LAMBDA var :
        IF var = Num(0) THEN Num(1) ELSE RSqrt(var))

\* the scaler after fit(df[columns])
FittedScaler(df, columns) ==
    Let2(df.rows, columns, LAMBDA rows, cols :
        [fitted |-> TRUE,
         n_features |-> Len(cols),
         mean_ |-> [i \in 1..Len(cols) |-> Mean(rows, cols[i])],
         scale_ |-> [i \in 1..Len(cols) |-> ScaleOf(rows, cols[i])]])

RECURSIVE SeqToSet(_)
SeqToSet(s) == IF s = <<>> THEN {} ELSE {Head(s)} \cup SeqToSet(Tail(s))

\* mutant of CalculatePositionStats: the rows are grouped by their position
\* whether or not the frame has a position column
CalculatePositionStatsAlways(stats, df) ==
    Let2({ p \in SeqToSet(PrimaryPositions) : \E r \in df.rows : r.position = p },
         SeqToSet(df.columns) \ {"position"},
         LAMBDA present, numeric :
           [p \in (DOMAIN stats) \cup present |->
               IF p \in present
               THEN [c \in numeric |-> Mean({ r \in df.rows : r.position = p }, c)]
               ELSE stats[p]])

\* position_stats after _calculate_position_stats(df), starting from stats
CalculatePositionStats(stats, df) ==
    IF ~Contains(df.columns, "position") THEN stats
    ELSE Let2({ p \in SeqToSet(PrimaryPositions) : \E r \in df.rows : r.position = p },
              SeqToSet(df.columns) \ {"position"},
              LAMBDA present, numeric :
                [p \in (DOMAIN stats) \cup present |->
                    IF p \in present
                    THEN [c \in numeric |->
                            Mean({ r \in df.rows : r.position = p }, c)]
                    ELSE stats[p]])

Init ==
    /\ model_path \in Models \cup {Missing}
    /\ data_path \in Frames \cup {Missing}
    /\ model = None
    /\ scaler = None
    /\ feature_columns = None
    /\ position_stats = <<>>
    /\ load_result = "pending"
    /\ ret = Idle
    /\ inflight = {}
    /\ current_league = None

\* load_model_and_data: each step that raises ends the call with False and
\* leaves the fields assigned so far
LoadModelAndData ==
    /\ ret = Idle
    /\ load_result = "pending"
    /\ UNCHANGED <<model_path, data_path, inflight, current_league>>
    /\ IF model_path = Missing
       THEN /\ load_result' = "False"
            /\ UNCHANGED <<model, scaler, feature_columns, position_stats>>
       ELSE /\ model' = model_path
            /\ IF data_path = Missing
               THEN /\ load_result' = "False"
                    /\ UNCHANGED <<scaler, feature_columns, position_stats>>
               ELSE \E df \in {data_path} : \E columns \in {FeatureColumns(df)} :
                        /\ feature_columns' = columns
                        /\ IF ScalerFitRaises(df, columns)
                           THEN /\ scaler' = UnfittedScaler
                                /\ load_result' = "False"
                                /\ UNCHANGED position_stats
                           ELSE /\ scaler' = FittedScaler(df, columns)
                                /\ position_stats' = CalculatePositionStats(position_stats, df)
                                /\ load_result' = "True"
    /\ ret' = [op |-> "load_model_and_data", value |-> load_result']

\* is_loaded()
IsLoadedValue == model # None /\ scaler # None /\ feature_columns # None

IsLoaded ==
    /\ ret = Idle
    /\ ret' = [op |-> "is_loaded", value |-> IsLoadedValue]
    /\ UNCHANGED <<model_path, data_path, model, scaler, feature_columns,
                   position_stats, load_result, inflight, current_league>>

-----------------------------------------------------------------------------
(* Feature Builder *)

Return(v) == [kind |-> "return", value |-> v]

Raise(e) == [kind |-> "raise", error |-> e]

NotLoaded == Raise("ValueError: Model not loaded")

\* np.zeros(n)
Zeros(n) == [i \in 1..n |-> Num(0)]

\* features[columns.index(name)] = value, when name is a column
SetFeature(features, columns, name, value) ==
    IF Contains(columns, name)
    THEN [features EXCEPT ![Index(columns, name)] = value]
    ELSE features

\* position_flags
PositionFlagValue(flag, position) ==
    CASE flag = "is_qb" -> IF position = "QB" THEN 1 ELSE 0
      [] flag = "is_rb" -> IF position = "RB" THEN 1 ELSE 0
      [] flag = "is_wr" -> IF position = "WR" THEN 1 ELSE 0
      [] flag = "is_te" -> IF position = "TE" THEN 1 ELSE 0

\* for flag, value in position_flags.items(): features[index(flag)] = value
SetPositionFlags(features, columns, position, flags) ==
    Let(features, LAMBDA zeroed :
        [i \in 1..Len(columns) |->
            IF \E k \in 1..Len(flags) : flags[k] = columns[i] /\ i = Index(columns, flags[k])
            THEN Num(PositionFlagValue(columns[i], position))
            ELSE zeroed[i]])

\* mutants of ScaleFactor: normalised around 100 points; capped at 1.5
ScaleFactorPer100(projected_points) == RDiv(projected_points, Num(100))

ScaleFactorCapped(projected_points) ==
    Let(RDiv(projected_points, Num(NominalProjection)), LAMBDA f :
        IF f.n * 2 > 3 * f.d THEN Rat(3, 2) ELSE f)

\* projected_points / 150
ScaleFactor(projected_points) == RDiv(projected_points, Num(NominalProjection))

\* mutant of ProfileWritten: a missing mean is written too
ProfileWrittenKeepsMissing(columns, pos_stats) ==
    { feature \in DOMAIN pos_stats : Contains(columns, feature) }

\* the features of a profile entry that the loop writes
ProfileWritten(columns, pos_stats) ==
    { feature \in DOMAIN pos_stats :
        Contains(columns, feature) /\ ~IsNaN(pos_stats[feature]) }

\* the loop over pos_stats.items(): dividing a projection that is not a number
\* raises TypeError
ApplyPositionAverages(features, columns, pos_stats, projected_points) ==
    Let2(features, ProfileWritten(columns, pos_stats), LAMBDA zeroed, written :
        IF written = {} THEN Return(zeroed)
        ELSE IF projected_points = None THEN Raise("TypeError")
        ELSE Let(ScaleFactor(projected_points), LAMBDA scale_factor :
                 Return([i \in 1..Len(columns) |->
                           IF columns[i] \in written /\ i = Index(columns, columns[i])
                           THEN RMul(pos_stats[columns[i]], scale_factor)
                           ELSE zeroed[i]])))

\* mutant of StatEstimates: the RB rushing touchdowns are not scaled
StatEstimatesFixedTds(position, scale_factor) ==
    CASE position = "QB" ->
           [passing_yards    |-> RMul(Num(3500), scale_factor),
            passing_tds      |-> RMul(Num(25), scale_factor),
            completions      |-> RMul(Num(350), scale_factor),
            attempts         |-> RMul(Num(550), scale_factor),
            interceptions    |-> Num(10)]
      [] position = "RB" ->
           [rushing_yards    |-> RMul(Num(800), scale_factor),
            rushing_tds      |-> Num(8),
            rushing_attempts |-> RMul(Num(200), scale_factor),
            receiving_yards  |-> RMul(Num(300), scale_factor),
            receptions       |-> RMul(Num(30), scale_factor),
            targets          |-> RMul(Num(40), scale_factor)]
      [] position = "WR" ->
           [receiving_yards  |-> RMul(Num(900), scale_factor),
            receiving_tds    |-> RMul(Num(7), scale_factor),
            receptions       |-> RMul(Num(70), scale_factor),
            targets          |-> RMul(Num(110), scale_factor),
            rushing_yards    |-> RMul(Num(50), scale_factor)]
      [] position = "TE" ->
           [receiving_yards  |-> RMul(Num(600), scale_factor),
            receiving_tds    |-> RMul(Num(5), scale_factor),
            receptions       |-> RMul(Num(50), scale_factor),
            targets          |-> RMul(Num(75), scale_factor)]
      [] OTHER -> <<>>

\* stat_estimates of _estimate_basic_stats
StatEstimates(position, scale_factor) ==
    CASE position = "QB" ->
           [passing_yards    |-> RMul(Num(3500), scale_factor),
            passing_tds      |-> RMul(Num(25), scale_factor),
            completions      |-> RMul(Num(350), scale_factor),
            attempts         |-> RMul(Num(550), scale_factor),
            interceptions    |-> Num(10)]
      [] position = "RB" ->
           [rushing_yards    |-> RMul(Num(800), scale_factor),
            rushing_tds      |-> RMul(Num(8), scale_factor),
            rushing_attempts |-> RMul(Num(200), scale_factor),
            receiving_yards  |-> RMul(Num(300), scale_factor),
            receptions       |-> RMul(Num(30), scale_factor),
            targets          |-> RMul(Num(40), scale_factor)]
      [] position = "WR" ->
           [receiving_yards  |-> RMul(Num(900), scale_factor),
            receiving_tds    |-> RMul(Num(7), scale_factor),
            receptions       |-> RMul(Num(70), scale_factor),
            targets          |-> RMul(Num(110), scale_factor),
            rushing_yards    |-> RMul(Num(50), scale_factor)]
      [] position = "TE" ->
           [receiving_yards  |-> RMul(Num(600), scale_factor),
            receiving_tds    |-> RMul(Num(5), scale_factor),
            receptions       |-> RMul(Num(50), scale_factor),
            targets          |-> RMul(Num(75), scale_factor)]
      [] OTHER -> <<>>

\* _estimate_basic_stats(features, position, projected_points): the features
\* array after the call
EstimateBasicStats(features, columns, position, projected_points) ==
    IF projected_points = None
    THEN Raise("TypeError")
    ELSE Let(ScaleFactor(projected_points), LAMBDA scale_factor :
             Let2(features, StatEstimates(position, scale_factor),
                  LAMBDA zeroed, stat_estimates :
                    Return([i \in 1..Len(columns) |->
                              IF columns[i] \in DOMAIN stat_estimates
                                 /\ i = Index(columns, columns[i])
                              THEN stat_estimates[columns[i]]
                              ELSE zeroed[i]])))

\* mutants of SetGames: the value is appended; the value is set only where no
\* estimate was written
SetGamesAppended(features, columns) ==
    IF Contains(columns, "games") THEN Append(features, Num(FullSeasonGames))
    ELSE features

SetGamesIfUnset(features, columns) ==
    IF Contains(columns, "games") /\ features[Index(columns, "games")] = Num(0)
    THEN [features EXCEPT ![Index(columns, "games")] = Num(FullSeasonGames)]
    ELSE features

\* features[columns.index('games')] = 17
SetGames(features, columns) ==
    SetFeature(features, columns, "games", Num(FullSeasonGames))

\* mutants of the defaults: a missing position read as WR, a missing projection
\* read as 0
PositionOfDefaultWR(player_data) == Get(player_data, "position", "WR")

ProjectedPointsOfDefaultZero(player_data) == Get(player_data, "projectedPoints", Num(0))

\* mutant of ProjectedPointsOf: the projection is also read under projected_points
ProjectedPointsOfEitherKey(player_data) ==
    Get(player_data, "projectedPoints",
        Get(player_data, "projected_points", Num(NominalProjection)))

\* the position and the projection create_player_features reads
PositionOf(player_data) == Get(player_data, "position", "RB")

ProjectedPointsOf(player_data) ==
    Get(player_data, "projectedPoints", Num(NominalProjection))

\* create_player_features(player_data) on a service with the given fields: the
\* one row of the returned array, or the exception raised
CreatePlayerFeaturesOn(columns, stats, player_data) ==
    IF columns = None THEN NotLoaded
    ELSE Let2(PositionOf(player_data), ProjectedPointsOf(player_data),
              LAMBDA position, projected_points :
         Let(SetPositionFlags(Zeros(Len(columns)), columns, position, PositionFlags),
             LAMBDA flagged :
         Let(IF position \in DOMAIN stats
             THEN ApplyPositionAverages(flagged, columns, stats[position],
                                        projected_points)
             ELSE EstimateBasicStats(flagged, columns, position, projected_points),
             LAMBDA estimated :
         IF estimated.kind = "raise" THEN estimated
         ELSE Return(SetGames(estimated.value, columns)))))

-----------------------------------------------------------------------------
(* Valuation and trade evaluation *)

\* the player descriptors of the requests: a dict with any of the keys
Positions == {"QB", "RB", "WR", "TE", "UNKNOWN"}

Projections == {Num(0), Num(100), Num(150), Num(300), None}

Optional(key, values) == {<<>>} \cup { key :> v : v \in values }

\* the fields of a descriptor that the service never reads, with two settings
Informational == {
    [id |-> "4241389", name |-> "A", pro_team |-> "KC", injury_status |-> "ACTIVE",
     season_points |-> Num(0), lineup_slot |-> "RB"],
    [id |-> "3116406", name |-> "B", pro_team |-> "FA", injury_status |-> "OUT",
     season_points |-> Num(300), lineup_slot |-> "BE"] }

Descriptors ==
    { p @@ q : p \in Optional("position", Positions),
               q \in Optional("projectedPoints", Projections) }
    \cup { p @@ ("projected_points" :> Num(300)) :
               p \in Optional("position", Positions) }
    \cup { ("position" :> "WR") @@ ("projectedPoints" :> Num(100)) @@ other :
               other \in Informational }

\* the descriptors the trade lists are made of
TradeDescriptors == {
    <<>>,
    ("position" :> "QB") @@ ("projectedPoints" :> Num(300)),
    ("position" :> "UNKNOWN") @@ ("projectedPoints" :> None) }

MaxTradeLen == 1

TradeLists == UNION { [1..k -> TradeDescriptors] : k \in 0..MaxTradeLen }

\* mutant of ScalerTransform: a vector of another length is cut or filled with
\* zeros to the fitted length
ScalerTransformPadding(sc, features) ==
    IF ~sc.fitted THEN Raise("NotFittedError")
    ELSE Let(features, LAMBDA x :
             Return([i \in 1..sc.n_features |->
                        RDiv(RSub(IF i <= Len(x) THEN x[i] ELSE Num(0), sc.mean_[i]),
                             sc.scale_[i])]))

\* scaler.transform(features)
ScalerTransform(sc, features) ==
    IF ~sc.fitted THEN Raise("NotFittedError")
    ELSE Let(features, LAMBDA x :
             IF Len(x) # sc.n_features THEN Raise("ValueError: n_features")
             ELSE Return([i \in 1..Len(x) |->
                            RDiv(RSub(x[i], sc.mean_[i]), sc.scale_[i])]))

\* model.predict(features_scaled)[0][0]
ModelPredict(m, features_scaled) ==
    RAdd(Num(m.b), RMul(Num(m.w), RSum(features_scaled)))

\* predict_fantasy_points(player_data) on a service with the given fields
PredictFantasyPointsOn(m, sc, columns, stats, player_data) ==
    IF m = None \/ sc = None THEN NotLoaded
    ELSE Let(CreatePlayerFeaturesOn(columns, stats, player_data), LAMBDA features :
             IF features.kind = "raise" THEN features
             ELSE Let(ScalerTransform(sc, features.value), LAMBDA features_scaled :
                      IF features_scaled.kind = "raise" THEN features_scaled
                      ELSE Return(ModelPredict(m, features_scaled.value))))

\* sum(self.predict_fantasy_points(player) for player in players): the first
\* prediction that raises ends the sum
SumPredictions(m, sc, columns, stats, players) ==
    Let([i \in 1..Len(players) |->
            PredictFantasyPointsOn(m, sc, columns, stats, players[i])],
        LAMBDA predictions :
        Let({ i \in 1..Len(players) : predictions[i].kind = "raise" }, LAMBDA raising :
            IF raising # {}
            THEN predictions[CHOOSE i \in raising : \A j \in raising : i <= j]
            ELSE Return(RSum([i \in 1..Len(players) |-> predictions[i].value]))))

\* a > b on floats: False when either is NaN
RGt(a, b) ==
    Let2(a, b, LAMBDA x, y : ~IsNaN(x) /\ ~IsNaN(y) /\ x.n * y.d > y.n * x.d)

\* mutant of Recommendation: the lower bounds are inclusive
RecommendationInclusive(user_net_change) ==
    Let(user_net_change, LAMBDA change :
        IF ~RGt(Num(10), change) /\ ~IsNaN(change) THEN "Excellent trade for you!"
        ELSE IF ~RGt(Num(5), change) /\ ~IsNaN(change) THEN "Good trade for you."
        ELSE IF ~RGt(Num(0), change) /\ ~IsNaN(change) THEN "Slight advantage to you."
        ELSE IF ~RGt(Num(-5), change) /\ ~IsNaN(change) THEN "Fairly even trade."
        ELSE IF ~RGt(Num(-10), change) /\ ~IsNaN(change)
             THEN "This trade favors your opponent."
        ELSE "Poor trade for you.")

Recommendation(user_net_change) ==
    Let(user_net_change, LAMBDA change :
        IF RGt(change, Num(10)) THEN "Excellent trade for you!"
        ELSE IF RGt(change, Num(5)) THEN "Good trade for you."
        ELSE IF RGt(change, Num(0)) THEN "Slight advantage to you."
        ELSE IF RGt(change, Num(-5)) THEN "Fairly even trade."
        ELSE IF RGt(change, Num(-10)) THEN "This trade favors your opponent."
        ELSE "Poor trade for you.")

\* mutant of AnalyzeTradeImpactOn: the user's net change is what is given minus
\* what is received
AnalyzeTradeImpactOnSwapped(m, sc, columns, stats, user_players, partner_players) ==
    Let(SumPredictions(m, sc, columns, stats, user_players), LAMBDA giving :
        IF giving.kind = "raise" THEN giving
        ELSE Let(SumPredictions(m, sc, columns, stats, partner_players),
                 LAMBDA receiving :
                 IF receiving.kind = "raise" THEN receiving
                 ELSE Return([user_giving_value |-> giving.value,
                              user_receiving_value |-> receiving.value,
                              user_net_change |-> RSub(giving.value, receiving.value),
                              partner_net_change |-> RSub(giving.value, receiving.value),
                              recommendation |->
                                  Recommendation(RSub(giving.value, receiving.value))])))

\* analyze_trade_impact(user_players, partner_players)
AnalyzeTradeImpactOn(m, sc, columns, stats, user_players, partner_players) ==
    Let(SumPredictions(m, sc, columns, stats, user_players), LAMBDA giving :
        IF giving.kind = "raise" THEN giving
        ELSE Let(SumPredictions(m, sc, columns, stats, partner_players),
                 LAMBDA receiving :
                 IF receiving.kind = "raise" THEN receiving
                 ELSE Return([user_giving_value |-> giving.value,
                              user_receiving_value |-> receiving.value,
                              user_net_change |-> RSub(receiving.value, giving.value),
                              partner_net_change |-> RSub(giving.value, receiving.value),
                              recommendation |->
                                  Recommendation(RSub(receiving.value, giving.value))])))

-----------------------------------------------------------------------------
(* The calls on the service *)

fields == <<model_path, data_path, model, scaler, feature_columns, position_stats,
            load_result>>

CreatePlayerFeatures ==
    /\ ret = Idle
    /\ \E player_data \in Descriptors :
         ret' = [op |-> "create_player_features", player_data |-> player_data,
                 result |-> CreatePlayerFeaturesOn(feature_columns, position_stats,
                                                   player_data)]
    /\ UNCHANGED <<fields, inflight, current_league>>

PredictFantasyPoints ==
    /\ ret = Idle
    /\ \E player_data \in Descriptors :
         ret' = [op |-> "predict_fantasy_points", player_data |-> player_data,
                 result |-> PredictFantasyPointsOn(model, scaler, feature_columns,
                                                   position_stats, player_data)]
    /\ UNCHANGED <<fields, inflight, current_league>>

AnalyzeTradeImpact ==
    /\ ret = Idle
    /\ \E user_players \in TradeLists, partner_players \in TradeLists :
         ret' = [op |-> "analyze_trade_impact", user_players |-> user_players,
                 partner_players |-> partner_players,
                 result |-> AnalyzeTradeImpactOn(model, scaler, feature_columns,
                                                 position_stats, user_players,
                                                 partner_players)]
    /\ UNCHANGED <<fields, inflight, current_league>>

\* the caller takes the result of the call
TakeResult ==
    /\ ret # Idle
    /\ ret' = Idle
    /\ UNCHANGED <<fields, inflight, current_league>>

\* the frame with its position labels as a column
Labelled(df) == [columns |-> <<"position">> \o df.columns, rows |-> df.rows]

\* _calculate_position_stats(df) called on the loaded service with the labelled
\* frame of its dataset
CalculatePositionStatsCall ==
    /\ ret = Idle
    /\ load_result = "True"
    /\ position_stats' = CalculatePositionStats(position_stats, Labelled(data_path))
    /\ ret' = [op |-> "_calculate_position_stats"]
    /\ UNCHANGED <<model_path, data_path, model, scaler, feature_columns, load_result,
                   inflight, current_league>>

-----------------------------------------------------------------------------
(* Heuristic trade analysis: ESPNService.calculate_trade_value and the         *)
(* analyze-trade endpoint of backend/simple_main.py                            *)

\* a projected_points value that is not a number, such as the string 'abc'
NotANumber == [text |-> "abc"]

IsNumber(v) == DOMAIN v = {"n", "d"}

\* the player dicts of the heuristic requests
HeuristicPlayers == {
    ("position" :> "RB") @@ ("projected_points" :> Num(100)),
    ("position" :> "K") @@ ("projected_points" :> Num(100)),
    ("position" :> "QB") @@ ("projected_points" :> Num(150)),
    ("position" :> "UNKNOWN") @@ ("projected_points" :> Num(115)),
    ("position" :> "WR") @@ ("projected_points" :> Rat(1, 100)),
    ("position" :> "TE") @@ ("projected_points" :> None),
    ("position" :> "D/ST"),
    ("projected_points" :> NotANumber) }

MaxTeamLen == 2

TeamLists == UNION { [1..k -> HeuristicPlayers] : k \in 0..MaxTeamLen }

\* round(x, digits), units = 10 ** digits: to the nearest multiple of 1/units,
\* a tie to the even one
Round(x, units) ==
    Let2(x.n * units, x.d, LAMBDA scaled, d :
        Let2(scaled \div d, scaled % d, LAMBDA q, r :
            IF 2 * r > d \/ (2 * r = d /\ q % 2 = 1)
            THEN Rat(q + 1, units)
            ELSE Rat(q, units)))

\* position_values: the positions that have a bucket
BreakdownPositions == {"QB", "RB", "WR", "TE", "K", "D/ST"}

\* mutant of Multiplier: the kicker counts in full
MultiplierKickerFull(position) ==
    CASE position = "QB" -> Rat(4, 5)
      [] position = "RB" -> Rat(6, 5)
      [] position = "WR" -> Rat(11, 10)
      [] position = "TE" -> Num(1)
      [] position = "K" -> Num(1)
      [] position = "D/ST" -> Rat(3, 5)
      [] OTHER -> Num(1)

\* multipliers.get(position, 1.0)
Multiplier(position) ==
    CASE position = "QB" -> Rat(4, 5)
      [] position = "RB" -> Rat(6, 5)
      [] position = "WR" -> Rat(11, 10)
      [] position = "TE" -> Num(1)
      [] position = "K" -> Rat(1, 2)
      [] position = "D/ST" -> Rat(3, 5)
      [] OTHER -> Num(1)

\* base_value and position of one player
BaseValue(player) == Get(player, "projected_points", Num(0))

HeuristicPosition(player) == Get(player, "position", "UNKNOWN")

\* what the except branch of calculate_trade_value returns
TradeValueOnError ==
    [total_value |-> Num(0), position_breakdown |-> <<>>, average_value |-> Num(0)]

\* calculate_trade_value(players): multiplying a base_value that is not a number
\* raises TypeError, which the except branch turns into the zero result
CalculateTradeValueOf(players) ==
    Let(players, LAMBDA team :
        IF \E i \in 1..Len(team) : ~IsNumber(BaseValue(team[i]))
        THEN TradeValueOnError
        ELSE Let([i \in 1..Len(team) |->
                     RMul(BaseValue(team[i]), Multiplier(HeuristicPosition(team[i])))],
                 LAMBDA player_value :
                 Let(RSum(player_value), LAMBDA total_value :
                     [total_value |-> Round(total_value, 100),
                      position_breakdown |->
                          [p \in BreakdownPositions |->
                              RSum(SelectSeq([i \in 1..Len(team) |->
                                                 IF HeuristicPosition(team[i]) = p
                                                 THEN player_value[i] ELSE Num(0)],
                                             LAMBDA v : TRUE))],
                      average_value |->
                          Round(RDiv(total_value,
                                     Num(IF Len(team) > 1 THEN Len(team) ELSE 1)),
                                100)])))

FairnessThreshold == 5

\* a <= b on numbers
RLe(a, b) == Let2(a, b, LAMBDA x, y : x.n * y.d <= y.n * x.d)

RAbs(x) == Let(x, LAMBDA v : [n |-> Abs(v.n), d |-> v.d])

\* is_fair = value_difference <= fairness_threshold
IsFair(value_difference) == RLe(value_difference, Num(FairnessThreshold))

\* mutant of AnalyzeTradeWith: equal totals go to team1
AnalyzeTradeWithTieToTeam1(team1_value, team2_value) ==
    Let2(team1_value.total_value, team2_value.total_value, LAMBDA total1, total2 :
        Let2(IF RGt(total2, total1) THEN "team2" ELSE "team1",
             IF RGt(total2, total1) THEN RSub(total2, total1) ELSE RSub(total1, total2),
             LAMBDA winner, advantage :
                Let(IsFair(RAbs(RSub(total1, total2))), LAMBDA is_fair :
                    [team1_value |-> team1_value,
                     team2_value |-> team2_value,
                     is_fair |-> is_fair,
                     winner |-> winner,
                     advantage |-> Round(advantage, 100),
                     recommendation |->
                         IF is_fair THEN [text |-> "Accept"]
                         ELSE [text |-> "Decline", winner |-> winner,
                               by |-> Round(advantage, 10)]])))

\* analyze_trade of simple_main.py after the two calculate_trade_value calls:
\* the response body
AnalyzeTradeWith(team1_value, team2_value) ==
    Let2(team1_value.total_value, team2_value.total_value, LAMBDA total1, total2 :
        Let2(IF RGt(total1, total2) THEN "team1"
             ELSE IF RGt(total2, total1) THEN "team2" ELSE "tie",
             IF RGt(total1, total2) THEN RSub(total1, total2)
             ELSE IF RGt(total2, total1) THEN RSub(total2, total1) ELSE Num(0),
             LAMBDA winner, advantage :
                Let(IsFair(RAbs(RSub(total1, total2))), LAMBDA is_fair :
                    [team1_value |-> team1_value,
                     team2_value |-> team2_value,
                     is_fair |-> is_fair,
                     winner |-> winner,
                     advantage |-> Round(advantage, 100),
                     recommendation |->
                         IF is_fair THEN [text |-> "Accept"]
                         ELSE [text |-> "Decline", winner |-> winner,
                               by |-> Round(advantage, 10)]])))

\* analyze_trade(trade) of simple_main.py
AnalyzeTradeOf(team1_players, team2_players) ==
    AnalyzeTradeWith(CalculateTradeValueOf(team1_players),
                     CalculateTradeValueOf(team2_players))

\* the process of simple_main.py holds no PlayerValuationService
InitHeuristic ==
    /\ model_path = Missing
    /\ data_path = Missing
    /\ model = None
    /\ scaler = None
    /\ feature_columns = None
    /\ position_stats = <<>>
    /\ load_result = "pending"
    /\ ret = Idle
    /\ inflight = {}
    /\ current_league = None

CalculateTradeValue ==
    /\ ret = Idle
    /\ \E players \in TeamLists :
         ret' = [op |-> "calculate_trade_value", players |-> players,
                 result |-> Return(CalculateTradeValueOf(players))]
    /\ UNCHANGED <<fields, inflight, current_league>>

\* the lists of the requests, each with what calculate_trade_value returns for it
ValuedTeams == { [players |-> players, value |-> CalculateTradeValueOf(players)] :
                    players \in TeamLists }

AnalyzeTrade ==
    /\ ret = Idle
    /\ \E team1 \in ValuedTeams, team2 \in ValuedTeams :
         ret' = [op |-> "analyze_trade", team1_players |-> team1.players,
                 team2_players |-> team2.players,
                 result |-> Return(AnalyzeTradeWith(team1.value, team2.value))]
    /\ UNCHANGED <<fields, inflight, current_league>>

NextHeuristic ==
    \/ CalculateTradeValue
    \/ AnalyzeTrade
    \/ TakeResult

SpecHeuristic == InitHeuristic /\ [][NextHeuristic]_vars

-----------------------------------------------------------------------------
(* League data source: ESPNService._parse_player_from_api.  A player object of *)
(* the ESPN client is a function from the attributes it has to their values.   *)

HasAttr(object, attribute) == attribute \in DOMAIN object

\* getattr(object, attribute, default)
GetAttr(object, attribute, default) ==
    IF HasAttr(object, attribute) THEN object[attribute] ELSE default

\* value or 0
OrZero(value) == IF value = None \/ value = Num(0) THEN Num(0) ELSE value

\* slot_map of the position handling
SlotMap == (0 :> "QB") @@ (2 :> "RB") @@ (4 :> "WR") @@ (6 :> "TE")
               @@ (16 :> "D/ST") @@ (17 :> "K")

\* slot_map of the lineup slot
LineupSlotMap == SlotMap @@ (20 :> "BENCH") @@ (21 :> "IR")

ParsedPosition(player) ==
    IF HasAttr(player, "position") THEN player["position"]
    ELSE IF HasAttr(player, "eligibleSlots")
              /\ player["eligibleSlots"] # <<>>
              /\ player["eligibleSlots"][1] \in DOMAIN SlotMap
         THEN SlotMap[player["eligibleSlots"][1]]
         ELSE "UNKNOWN"

ParsedProTeam(player) ==
    IF HasAttr(player, "proTeam") THEN player["proTeam"]
    ELSE IF HasAttr(player, "team") THEN GetAttr(player["team"], "abbrev", "FA")
         ELSE "FA"

ParsedInjuryStatus(player) ==
    IF HasAttr(player, "injuryStatus") THEN player["injuryStatus"]
    ELSE IF HasAttr(player, "injured")
         THEN (IF player["injured"] THEN "INJURED" ELSE "ACTIVE")
         ELSE "ACTIVE"

ParsedProjectedPoints(player) ==
    IF HasAttr(player, "projected_total_points")
    THEN OrZero(player["projected_total_points"])
    ELSE IF HasAttr(player, "projected_points") THEN OrZero(player["projected_points"])
         ELSE Num(0)

ParsedSeasonPoints(player) ==
    IF HasAttr(player, "total_points") THEN OrZero(player["total_points"])
    ELSE IF HasAttr(player, "points") THEN OrZero(player["points"])
         ELSE IF HasAttr(player, "stats") /\ HasAttr(player["stats"], "points")
              THEN player["stats"]["points"]
              ELSE Num(0)

ParsedLineupSlot(player) ==
    IF HasAttr(player, "slot_position") THEN player["slot_position"]
    ELSE IF HasAttr(player, "lineupSlot")
         THEN Get(LineupSlotMap, player["lineupSlot"], "BENCH")
         ELSE "BENCH"

\* position_multipliers.get(position, 1.0) of _calculate_player_value
PositionMultiplier(position) ==
    CASE position = "RB" -> Rat(6, 5)
      [] position = "WR" -> Rat(11, 10)
      [] position = "K" -> Rat(1, 2)
      [] position = "D/ST" -> Rat(7, 10)
      [] OTHER -> Num(1)

\* _calculate_player_value(position, avg_points, projected_points)
CalculatePlayerValue(position, avg_points, projected_points) ==
    Round(RMul(RAdd(RMul(avg_points, Rat(7, 10)), RMul(projected_points, Rat(3, 10))),
               PositionMultiplier(position)),
          10)

\* current_week = 8
CurrentWeek == 8

\* _parse_player_from_api(player): the record, or None where a statement raises
\* (points that are not numbers cannot be compared or rounded)
ParsePlayerFromApi(player) ==
    Let2(ParsedProjectedPoints(player), ParsedSeasonPoints(player),
         LAMBDA projected_points, season_points :
         IF ~IsNumber(projected_points) \/ ~IsNumber(season_points) THEN None
         ELSE Let2(IF RGt(season_points, Num(0))
                   THEN RDiv(season_points, Num(CurrentWeek)) ELSE Num(0),
                   ParsedLineupSlot(player),
                   LAMBDA avg_points, lineup_slot :
                      [id |-> GetAttr(player, "playerId", 0),
                       name |-> GetAttr(player, "name", "Unknown Player"),
                       position |-> ParsedPosition(player),
                       team |-> ParsedProTeam(player),
                       injury_status |-> ParsedInjuryStatus(player),
                       projected_points |-> Round(projected_points, 10),
                       season_points |-> Round(season_points, 10),
                       avg_points |-> Round(avg_points, 10),
                       lineup_slot |-> lineup_slot,
                       percent_owned |-> GetAttr(player, "percent_owned", Num(0)),
                       percent_started |-> GetAttr(player, "percent_started", Num(0)),
                       is_starter |-> lineup_slot \notin {"BENCH", "IR"},
                       trade_value |->
                           CalculatePlayerValue(ParsedPosition(player), avg_points,
                                                projected_points)]))

\* a quarterback of the league with a season projection
Quarterback(projection) ==
    [playerId |-> 3139477, name |-> "A", position |-> "QB", proTeam |-> "KC",
     injuryStatus |-> "ACTIVE", projected_total_points |-> projection,
     total_points |-> Num(168), slot_position |-> "QB",
     percent_owned |-> Rat(999, 10), percent_started |-> Num(95)]

\* the players whose records are handed to the valuation service
SuppliedPlayers == { Quarterback(Num(150)), Quarterback(Num(300)) }

\* create_player_features on a record of the league data source
CreateSuppliedPlayerFeatures ==
    /\ ret = Idle
    /\ \E player \in SuppliedPlayers :
         \E player_data \in {ParsePlayerFromApi(player)} \ {None} :
            ret' = [op |-> "create_player_features", player_data |-> player_data,
                    result |-> CreatePlayerFeaturesOn(feature_columns, position_stats,
                                                      player_data)]
    /\ UNCHANGED <<fields, inflight, current_league>>

-----------------------------------------------------------------------------
(* League data source: ESPNService._parse_team_from_api.  A team object is a   *)
(* function from its attributes to their values; its roster is a sequence of   *)
(* player objects.                                                             *)

\* a player whose position, team and lineup slot come from the second choices
Reserve ==
    [playerId |-> 4241389, name |-> "B", eligibleSlots |-> <<2, 20>>,
     team |-> [abbrev |-> "SF"], injured |-> TRUE, projected_points |-> None,
     points |-> Num(0), lineupSlot |-> 20]

\* a player whose projection is not a number: parsing it raises
Unparsable ==
    [playerId |-> 15847, name |-> "C", position |-> "WR",
     projected_total_points |-> NotANumber]

\* the player objects of the rosters
ApiPlayers == { Quarterback(Num(150)), Reserve, Unparsable }

MaxRosterLen == 5

Rosters == UNION { [1..k -> ApiPlayers] : k \in 0..MaxRosterLen }

\* a string counts as true in a condition unless it is empty
Truthy(text) == text # ""

ParsedTeamName(team) ==
    IF HasAttr(team, "team_name") /\ Truthy(team["team_name"]) THEN team["team_name"]
    ELSE IF HasAttr(team, "name") /\ Truthy(team["name"]) THEN team["name"]
    ELSE IF HasAttr(team, "location") /\ HasAttr(team, "nickname")
         THEN <<team["location"], team["nickname"]>>
         ELSE "Unknown Team"

ParsedOwner(team) ==
    IF HasAttr(team, "owner") /\ Truthy(team["owner"]) THEN team["owner"]
    ELSE IF HasAttr(team, "primary_owner") /\ Truthy(team["primary_owner"])
         THEN team["primary_owner"]
         ELSE "Unknown"

\* points_for and points_against: from the team, else from its record, else 0
ParsedPoints(team, attribute) ==
    IF HasAttr(team, attribute) THEN team[attribute]
    ELSE IF HasAttr(team, "record") /\ HasAttr(team["record"], attribute)
         THEN team["record"][attribute]
         ELSE 0

\* mutant of DetailedLoop: the loop stops before the player at index 3
RECURSIVE DetailedLoopStoppingEarly(_, _, _)
DetailedLoopStoppingEarly(roster, i, parsed) ==
    IF i >= Len(roster) \/ i >= 3 THEN parsed
    ELSE Let(ParsePlayerFromApi(roster[i + 1]), LAMBDA player_data :
             DetailedLoopStoppingEarly(roster, i + 1,
                 IF player_data # None THEN Append(parsed, player_data) ELSE parsed))

\* for i, player in enumerate(team.roster), from index i on: the player is
\* parsed and appended, then the loop breaks once i >= 3
RECURSIVE DetailedLoop(_, _, _)
DetailedLoop(roster, i, parsed) ==
    IF i >= Len(roster) THEN parsed
    ELSE Let(ParsePlayerFromApi(roster[i + 1]), LAMBDA player_data :
             Let(IF player_data # None THEN Append(parsed, player_data) ELSE parsed,
                 LAMBDA appended :
                    IF i >= 3 THEN appended
                    ELSE DetailedLoop(roster, i + 1, appended)))

\* for player in players: the player is parsed and appended
RECURSIVE RemainingLoop(_, _)
RemainingLoop(players, parsed) ==
    IF players = <<>> THEN parsed
    ELSE Let(ParsePlayerFromApi(Head(players)), LAMBDA player_data :
             RemainingLoop(Tail(players),
                 IF player_data # None THEN Append(parsed, player_data) ELSE parsed))

\* team.roster[4:]
FromFifth(roster) == SubSeq(roster, 5, Len(roster))

\* team_data['roster'] after the two loops
ParsedRoster(team) ==
    IF HasAttr(team, "roster") /\ team["roster"] # <<>>
    THEN RemainingLoop(FromFifth(team["roster"]), DetailedLoop(team["roster"], 0, <<>>))
    ELSE <<>>

\* _parse_team_from_api(team)
ParseTeamFromApi(team) ==
    [id |-> GetAttr(team, "team_id", 0),
     name |-> ParsedTeamName(team),
     owner |-> ParsedOwner(team),
     wins |-> GetAttr(team, "wins", 0),
     losses |-> GetAttr(team, "losses", 0),
     points_for |-> ParsedPoints(team, "points_for"),
     points_against |-> ParsedPoints(team, "points_against"),
     roster |-> ParsedRoster(team)]

\* a team of the league with a roster
TeamWith(roster) ==
    [team_id |-> 7, team_name |-> "Alpha", owner |-> "owner-a", wins |-> 5,
     losses |-> 3, record |-> [points_for |-> 812, points_against |-> 760],
     roster |-> roster]

\* the process of simple_main.py after espn_service = ESPNService()
InitLeague == InitHeuristic

ParseTeamFromApiCall ==
    /\ ret = Idle
    /\ \E roster \in Rosters : \E team \in {TeamWith(roster)} :
         ret' = [op |-> "_parse_team_from_api", team |-> team,
                 result |-> Return(ParseTeamFromApi(team))]
    /\ UNCHANGED <<fields, inflight, current_league>>

-----------------------------------------------------------------------------
(* League data source: connecting to a league.  The ESPN client answers each    *)
(* League(league_id, year) with a league object or with an exception.           *)

\* urllib.parse.unquote on the cookie values considered
Unquote(text) ==
    CASE text = "%7Bu1%7D" -> "{u1}"
      [] OTHER -> text

\* text.strip('{}')
StripBraces(text) ==
    CASE text = "{u1}" -> "u1"
      [] text = "{u2}" -> "u2"
      [] OTHER -> text

\* int(text) raises ValueError on a text that is no number
IntRaises(text) == text \notin {"12345", "7", "9", "3"}

\* int(text)
IntOf(text) ==
    CASE text = "12345" -> 12345
      [] text = "7" -> 7
      [] text = "9" -> 9
      [] text = "3" -> 3

\* str(league.league_id)
StrOf(number) ==
    CASE number = 12345 -> "12345"
      [] OTHER -> "0"

\* _check_owner_match for an owner that is a dict
CheckOwnerDict(owner, clean_user_swid) ==
    HasAttr(owner, "id") /\ StripBraces(owner["id"]) = clean_user_swid

\* _check_owner_match for an owner that is a string
CheckOwnerText(owner, clean_user_swid) == StripBraces(owner) = clean_user_swid

\* _is_user_team(team, user_swid): owners is a list of dicts, the other owner
\* attributes are strings
IsUserTeam(team, user_swid) ==
    Let(StripBraces(user_swid), LAMBDA clean_user_swid :
        \/ /\ HasAttr(team, "owners")
           /\ \E k \in 1..Len(team["owners"]) :
                 CheckOwnerDict(team["owners"][k], clean_user_swid)
        \/ \E source \in {"owner", "primary_owner", "owner_id"} :
              HasAttr(team, source) /\ CheckOwnerText(team[source], clean_user_swid))

\* the league's teams parsed, before the user's team is settled
ParsedTeams(league) ==
    [i \in 1..Len(league["teams"]) |-> ParseTeamFromApi(league["teams"][i])]

\* the teams of the league that the loop finds to be the user's
UserTeams(league, user_swid) ==
    IF user_swid = "" THEN {}
    ELSE { i \in 1..Len(league["teams"]) : IsUserTeam(league["teams"][i], user_swid) }

\* the team dict marked as a guess
Uncertain(team_data) == team_data @@ [uncertain_ownership |-> TRUE]

\* _parse_league_from_api(league, user_swid): without a match the first team
\* dict is marked and returned as the user's, in the list as well
ParseLeagueFromApi(league, user_swid) ==
    IF ~HasAttr(league, "league_id") \/ ~HasAttr(league, "settings")
          \/ ~HasAttr(league, "teams")
    THEN Raise("Invalid league data format")
    ELSE Let2(ParsedTeams(league), UserTeams(league, user_swid), LAMBDA teams, mine :
             Let([id |-> StrOf(league["league_id"]),
                  name |-> GetAttr(league["settings"], "name", "League"),
                  size |-> Len(teams),
                  scoring_type |-> "STANDARD",
                  current_week |-> GetAttr(league, "current_week", 1)],
                 LAMBDA league_info :
                    IF mine # {}
                    THEN Return([league |-> league_info, teams |-> teams,
                                 user_team |-> teams[CHOOSE i \in mine :
                                                        \A j \in mine : j <= i]])
                    ELSE IF teams # <<>>
                    THEN Return([league |-> league_info,
                                 teams |-> [teams EXCEPT ![1] = Uncertain(teams[1])],
                                 user_team |-> Uncertain(teams[1])])
                    ELSE Return([league |-> league_info, teams |-> teams,
                                 user_team |-> None])))

\* years_to_try
YearsToTry == <<2025, 2024, 2023>>

\* League(...) raised
Refused == [refused |-> TRUE]

Beta ==
    [team_id |-> 9, name |-> "Beta", owners |-> << [id |-> "{u1}"] >>,
     primary_owner |-> "{u1}", wins |-> 2, losses |-> 6, points_for |-> 655,
     points_against |-> 790, roster |-> <<Reserve, Unparsable>>]

\* the league objects the client returns for a season, named after the season:
\* one whose data parses and one that lacks its teams
LeaguesOf(year) == {
    [league_id |-> 12345, year |-> year, settings |-> [name |-> <<"Sunday League", year>>],
     current_week |-> 9, teams |-> <<TeamWith(<<Quarterback(Num(150))>>), Beta>>],
    [league_id |-> 12345, year |-> year, settings |-> [name |-> <<"Sunday League", year>>]] }

\* what the client answers for each season
Apis == { api \in [SeqToSet(YearsToTry) -> {Refused} \cup UNION { LeaguesOf(y) : y \in SeqToSet(YearsToTry) }] :
            \A y \in SeqToSet(YearsToTry) : api[y] = Refused \/ api[y] \in LeaguesOf(y) }

LeagueIds == {"12345", "abc"}

\* the swid cookie of the request; the empty text stands for no cookie
Swids == {"", "%7Bu1%7D", "{u2}"}

\* for year in years: a season whose League(...) raises, or whose name cannot be
\* logged, or whose data does not parse is given up for the next one; league and
\* self.current_league keep what was assigned before the exception
RECURSIVE ConnectLoop(_, _, _, _, _, _)
ConnectLoop(years, league_id, api, user_swid, league, current) ==
    IF years = <<>> THEN [league |-> league, current_league |-> current, result |-> None]
    ELSE Let2(Head(years), Tail(years), LAMBDA year, rest :
        IF IntRaises(league_id) \/ api[year] = Refused
        THEN ConnectLoop(rest, league_id, api, user_swid, league, current)
        ELSE IF ~HasAttr(api[year], "settings") \/ ~HasAttr(api[year]["settings"], "name")
        THEN ConnectLoop(rest, league_id, api, user_swid, api[year], current)
        ELSE Let(ParseLeagueFromApi(api[year], user_swid), LAMBDA parsed :
                 IF parsed.kind = "raise"
                 THEN ConnectLoop(rest, league_id, api, user_swid, api[year], api[year])
                 ELSE [league |-> api[year], current_league |-> api[year],
                       result |-> parsed]))

\* the exception connect_with_cookies and connect_public_league raise
FailedToConnect(message) == Raise(<<"Failed to connect to ESPN league", message>>)

\* connect_with_cookies(league_id, espn_s2, swid) with the client answering api:
\* the result and self.current_league after the call
ConnectWithCookiesOn(league_id, swid, api, current) ==
    Let(Unquote(swid), LAMBDA swid_decoded :
        Let(ConnectLoop(YearsToTry, league_id, api, swid_decoded, None, current),
            LAMBDA tried :
               IF tried.result # None
               THEN [current_league |-> tried.current_league, result |-> tried.result]
               ELSE IF tried.league = None
               THEN [current_league |-> tried.current_league,
                     result |-> FailedToConnect(
                                   "Could not connect to league in any year (2023-2025)")]
               ELSE Let(ParseLeagueFromApi(tried.league, ""), LAMBDA parsed :
                        [current_league |-> tried.league,
                         result |-> IF parsed.kind = "raise"
                                    THEN FailedToConnect(parsed.error)
                                    ELSE parsed])))

ConnectWithCookies ==
    /\ ret = Idle
    /\ \E league_id \in LeagueIds, swid \in Swids, api \in Apis :
         \E outcome \in {ConnectWithCookiesOn(league_id, swid, api, current_league)} :
            /\ current_league' = outcome.current_league
            /\ ret' = [op |-> "connect_with_cookies", league_id |-> league_id,
                       swid |-> swid, api |-> api, result |-> outcome.result]
    /\ UNCHANGED <<fields, inflight>>

\* connect_public_league(league_id): the 2024 season only
ConnectPublicLeague ==
    /\ ret = Idle
    /\ \E league_id \in LeagueIds, api \in Apis :
         IF IntRaises(league_id) \/ api[2024] = Refused
         THEN /\ ret' = [op |-> "connect_public_league", league_id |-> league_id,
                         api |-> api, result |-> FailedToConnect("refused")]
              /\ UNCHANGED current_league
         ELSE /\ current_league' = api[2024]
              /\ \E parsed \in {ParseLeagueFromApi(api[2024], "")} :
                    ret' = [op |-> "connect_public_league", league_id |-> league_id,
                            api |-> api,
                            result |-> IF parsed.kind = "raise"
                                       THEN FailedToConnect(parsed.error)
                                       ELSE parsed]
    /\ UNCHANGED <<fields, inflight>>

-----------------------------------------------------------------------------
(* The roster and team-selection endpoints of backend/simple_main.py           *)

\* str(e) of an HTTPException: the text depends on the Starlette release, either
\* empty or the status code followed by the detail
StrOfHTTPException(status_code, detail) ==
    {"",
     CASE status_code = 404 -> "404: Team not found"
       [] detail = "Team ID is required" -> "400: Team ID is required"
       [] OTHER -> "400: No league connected"}

\* an HTTPException raised inside the try block is caught by 'except Exception'
\* and raised again with status 400 and detail str(e)
Reraised(status_code, detail) ==
    { [status |-> 400, detail |-> text] :
         text \in StrOfHTTPException(status_code, detail) }

\* the AttributeError of a league object without teams, raised again as 400
NoTeamsAttribute ==
    { [status |-> 400, detail |-> "'League' object has no attribute 'teams'"] }

\* the indices of the league's teams with the id
TeamsWithId(league, team_id) ==
    { i \in 1..Len(league["teams"]) : league["teams"][i]["team_id"] = team_id }

\* the first team of the league with the id
FirstTeamWithId(league, team_id) ==
    league["teams"][CHOOSE i \in TeamsWithId(league, team_id) :
                       \A j \in TeamsWithId(league, team_id) : i <= j]

\* the keys of roster_by_position
RosterPositions == {"QB", "RB", "WR", "TE", "K", "D/ST", "BENCH"}

\* the body get_team_roster returns for the parsed team
RosterBody(team_data) ==
    Let2(team_data.roster, SelectSeq(team_data.roster, LAMBDA player : player.is_starter),
         LAMBDA roster, starters :
         [team |-> [id |-> team_data.id, name |-> team_data.name,
                    owner |-> team_data.owner,
                    record |-> <<team_data.wins, team_data.losses>>],
          roster |-> [all_players |-> roster,
                      by_position |->
                          [p \in RosterPositions |->
                              SelectSeq(roster, LAMBDA player : player.position = p)],
                      starters |-> starters,
                      bench |-> SelectSeq(roster, LAMBDA player : ~player.is_starter),
                      total_players |-> Len(roster)],
          team_stats |->
              [total_points |->
                   RSum([i \in 1..Len(roster) |-> roster[i].season_points]),
               avg_starter_points |->
                   RDiv(RSum([i \in 1..Len(starters) |-> starters[i].avg_points]),
                        Num(IF Len(starters) > 1 THEN Len(starters) ELSE 1)),
               projected_points |->
                   RSum([i \in 1..Len(starters) |-> starters[i].projected_points])]])

\* get_team_roster(team_id) with espn_service.current_league = league: the
\* responses the endpoint can give
GetTeamRosterOn(league, team_id) ==
    IF league = None THEN Reraised(400, "No league connected")
    ELSE IF ~HasAttr(league, "teams") THEN NoTeamsAttribute
    ELSE IF TeamsWithId(league, team_id) = {} THEN Reraised(404, "Team not found")
    ELSE { [status |-> 200,
            body |-> RosterBody(ParseTeamFromApi(FirstTeamWithId(league, team_id)))] }

\* select_team(team_selection) with espn_service.current_league = league
SelectTeamOn(league, team_selection) ==
    IF Get(team_selection, "team_id", "") = ""
    THEN Reraised(400, "Team ID is required")
    ELSE IF league = None THEN Reraised(400, "No league connected")
    ELSE IF ~HasAttr(league, "teams") THEN NoTeamsAttribute
    ELSE IF league["teams"] # <<>> /\ IntRaises(team_selection["team_id"])
    THEN { [status |-> 400, detail |-> "invalid literal for int() with base 10"] }
    ELSE IF league["teams"] = <<>>
            \/ TeamsWithId(league, IntOf(team_selection["team_id"])) = {}
    THEN Reraised(404, "Team not found")
    ELSE { [status |-> 200,
            body |-> [success |-> TRUE,
                      selected_team |->
                          ParseTeamFromApi(
                              FirstTeamWithId(league,
                                              IntOf(team_selection["team_id"])))]] }

\* the team ids of the roster requests and the bodies of the selections
TeamIds == {7, 9, 3}

TeamSelections == { <<>> } \cup { [team_id |-> text] : text \in {"", "7", "9", "3", "abc"} }

GetTeamRoster ==
    /\ ret = Idle
    /\ \E team_id \in TeamIds :
         \E response \in GetTeamRosterOn(current_league, team_id) :
            ret' = [op |-> "get_team_roster", team_id |-> team_id,
                    response |-> response]
    /\ UNCHANGED <<fields, inflight, current_league>>

SelectTeam ==
    /\ ret = Idle
    /\ \E team_selection \in TeamSelections :
         \E response \in SelectTeamOn(current_league, team_selection) :
            ret' = [op |-> "select_team", team_selection |-> team_selection,
                    response |-> response]
    /\ UNCHANGED <<fields, inflight, current_league>>

NextLeague ==
    \/ ParseTeamFromApiCall
    \/ ConnectWithCookies
    \/ ConnectPublicLeague
    \/ GetTeamRoster
    \/ SelectTeam
    \/ TakeResult

SpecLeague == InitLeague /\ [][NextLeague]_vars

-----------------------------------------------------------------------------
(* The specifications of the valuation service *)

Next ==
    \/ LoadModelAndData
    \/ IsLoaded
    \/ CreatePlayerFeatures
    \/ PredictFantasyPoints
    \/ AnalyzeTradeImpact
    \/ TakeResult

Spec == Init /\ [][Next]_vars

NextProfile ==
    \/ Next
    \/ CalculatePositionStatsCall
    \/ CreateSuppliedPlayerFeatures

SpecProfile == Init /\ [][NextProfile]_vars

-----------------------------------------------------------------------------
(* The scaler applied directly *)

\* the vectors handed to the scaler: every length up to one past the widest schema
HandedVectors == { Zeros(n) : n \in 0..Len(WideColumns) }

\* self.scaler.transform(features) on the service's scaler
ScalerTransformCall ==
    /\ ret = Idle
    /\ scaler # None
    /\ \E features \in HandedVectors :
         ret' = [op |-> "scaler.transform", features |-> features,
                 result |-> ScalerTransform(scaler, features)]
    /\ UNCHANGED <<fields, inflight, current_league>>

NextScaler ==
    \/ LoadModelAndData
    \/ PredictFantasyPoints
    \/ ScalerTransformCall
    \/ TakeResult

SpecScaler == Init /\ [][NextScaler]_vars

-----------------------------------------------------------------------------
(* Requests in flight: the calls on the loaded service run statement by       *)
(* statement, several at a time, each with its own local values               *)

MaxInFlight == 2

ConcurrentTrades == {
    [user_players |-> << ("position" :> "QB") @@ ("projectedPoints" :> Num(300)) >>,
     partner_players |-> << <<>> >>] }

\* the calls that arrive: operation and arguments
Calls ==
    { [op |-> "is_loaded", player_data |-> <<>>, user_players |-> <<>>,
       partner_players |-> <<>>] }
    \cup { [op |-> o, player_data |-> d, user_players |-> <<>>,
            partner_players |-> <<>>] :
              o \in {"create_player_features", "predict_fantasy_points"},
              d \in TradeDescriptors }
    \cup { [op |-> "analyze_trade_impact", player_data |-> <<>>,
            user_players |-> t.user_players, partner_players |-> t.partner_players] :
              t \in ConcurrentTrades }

\* a request at a position of its call, holding the call's local value
At(call, pc, local) ==
    [op |-> call.op, player_data |-> call.player_data,
     user_players |-> call.user_players, partner_players |-> call.partner_players,
     pc |-> pc, local |-> local]

\* the call arrives and runs its first statement
Arrive(call) ==
    CASE call.op = "is_loaded" -> At(call, "done", Return(IsLoadedValue))
      [] call.op = "create_player_features" ->
           At(call, "done",
              CreatePlayerFeaturesOn(feature_columns, position_stats, call.player_data))
      [] call.op = "predict_fantasy_points" ->
           IF model = None \/ scaler = None
           THEN At(call, "done", NotLoaded)
           ELSE At(call, "checked", None)
      [] call.op = "analyze_trade_impact" ->
           Let(SumPredictions(model, scaler, feature_columns, position_stats,
                              call.user_players),
               LAMBDA giving :
                  IF giving.kind = "raise" THEN At(call, "done", giving)
                  ELSE At(call, "given", giving.value))

\* the next statement of a request that is not done
Advance(r) ==
    CASE r.pc = "checked" ->
           Let(CreatePlayerFeaturesOn(feature_columns, position_stats, r.player_data),
               LAMBDA features :
                  IF features.kind = "raise" THEN At(r, "done", features)
                  ELSE At(r, "features", features.value))
      [] r.pc = "features" ->
           Let(ScalerTransform(scaler, r.local), LAMBDA features_scaled :
                  IF features_scaled.kind = "raise" THEN At(r, "done", features_scaled)
                  ELSE At(r, "scaled", features_scaled.value))
      [] r.pc = "scaled" -> At(r, "done", Return(ModelPredict(model, r.local)))
      [] r.pc = "given" ->
           Let(SumPredictions(model, scaler, feature_columns, position_stats,
                              r.partner_players),
               LAMBDA receiving :
                  IF receiving.kind = "raise" THEN At(r, "done", receiving)
                  ELSE At(r, "done",
                          Return([user_giving_value |-> r.local,
                                  user_receiving_value |-> receiving.value,
                                  user_net_change |-> RSub(receiving.value, r.local),
                                  partner_net_change |-> RSub(r.local, receiving.value),
                                  recommendation |->
                                      Recommendation(RSub(receiving.value, r.local))])))

\* the endpoints serve a request once the startup load has succeeded
StartRequest ==
    /\ load_result = "True"
    /\ Cardinality(inflight) < MaxInFlight
    /\ \E call \in Calls : inflight' = inflight \cup {Arrive(call)}
    /\ UNCHANGED <<fields, ret, current_league>>

\* mutant of StepRequest: building the features on the fallback path stores a
\* profile entry for the position
StepRequestCachingProfile ==
    /\ \E r \in { q \in inflight : q.pc # "done" } :
         /\ inflight' = (inflight \ {r}) \cup {Advance(r)}
         /\ position_stats' =
              IF r.pc = "checked" /\ PositionOf(r.player_data) \notin DOMAIN position_stats
              THEN (PositionOf(r.player_data) :> [games |-> Num(FullSeasonGames)])
                       @@ position_stats
              ELSE position_stats
    /\ UNCHANGED <<model_path, data_path, model, scaler, feature_columns, load_result,
                   ret, current_league>>

\* one request runs its next statement
StepRequest ==
    /\ \E r \in { q \in inflight : q.pc # "done" } :
         inflight' = (inflight \ {r}) \cup {Advance(r)}
    /\ UNCHANGED <<fields, ret, current_league>>

\* the response of a finished request is sent
FinishRequest ==
    /\ \E r \in { q \in inflight : q.pc = "done" } : inflight' = inflight \ {r}
    /\ UNCHANGED <<fields, ret, current_league>>

\* the position statistics are installed before a request is served
CalculatePositionStatsAtStartup ==
    /\ inflight = {}
    /\ CalculatePositionStatsCall

NextConcurrent ==
    \/ LoadModelAndData
    \/ TakeResult
    \/ CalculatePositionStatsAtStartup
    \/ StartRequest
    \/ StepRequest
    \/ FinishRequest

\* the datasets of the services that serve the concurrent requests: the wide
\* frame with a QB season, an RB season whose receptions are missing, or both
ConcurrentFrames ==
    { df \in Frames :
        /\ df.columns = WideColumns
        /\ df.rows # {}
        /\ df.rows \subseteq { [position |-> "QB", v |-> 3, missing |-> "none"],
                               [position |-> "RB", v |-> 2, missing |-> "receptions"] } }

InitConcurrent ==
    /\ Init
    /\ model_path \in Models
    /\ data_path \in ConcurrentFrames

SpecConcurrent == InitConcurrent /\ [][NextConcurrent]_vars

-----------------------------------------------------------------------------
(* Properties *)

Loaded == load_result = "True"

IsCreate == ret.op = "create_player_features"

Returned == IsCreate /\ ret.result.kind = "return"

HasNumber(player_data, key) ==
    key \in DOMAIN player_data /\ player_data[key] # None

\* the entry of the returned vector under a column name
Entry(name) == ret.result.value[Index(feature_columns, name)]

\* the vector create_player_features returns for another descriptor on the
\* same service
VectorFor(player_data) ==
    CreatePlayerFeaturesOn(feature_columns, position_stats, player_data)

\* C1: on a service whose load has not completed successfully, every call of
\* predict_fantasy_points and of analyze_trade_impact, for any argument lists,
\* fails with the not-loaded error and returns nothing.
C1_CallsBeforeLoadFailNotLoaded ==
    (~Loaded /\ ret.op \in {"predict_fantasy_points", "analyze_trade_impact"})
        => ret.result = NotLoaded

\* C2: whenever load_model_and_data returned False, is_loaded() returns False
\* afterwards and no prediction is served.
C2_FailedLoadIsNotReady ==
    load_result = "False" =>
        /\ ret.op = "is_loaded" => ret.value = FALSE
        /\ ret.op = "predict_fantasy_points" => ret.result.kind = "raise"

\* C3: on a loaded schema of length N, create_player_features returns, for every
\* descriptor (any subset of the fields, any position), a vector of exactly N
\* entries indexed as the schema is.
C3_VectorHasSchemaLength ==
    (IsCreate /\ feature_columns # None
        /\ ("projectedPoints" \in DOMAIN ret.player_data
                => ret.player_data["projectedPoints"] # None))
        => /\ ret.result.kind = "return"
           /\ DOMAIN ret.result.value = 1..Len(feature_columns)

C3_Witness ==
    /\ Returned
    /\ ret.player_data = <<>>
    /\ "RB" \in DOMAIN position_stats
    /\ Len(ret.result.value) = 17

\* the indicator feature of a position
IndicatorOf(position) ==
    CASE position = "QB" -> "is_qb"
      [] position = "RB" -> "is_rb"
      [] position = "WR" -> "is_wr"
      [] position = "TE" -> "is_te"
      [] OTHER -> "none"

\* C4: in the returned vector every indicator feature of the schema is 1 if it is
\* the indicator of the descriptor's position and 0 otherwise, for every
\* projected-points value, with or without a profile for the position.
C4_IndicatorsAreOneHot ==
    (Returned /\ "position" \in DOMAIN ret.player_data) =>
        \A k \in 1..Len(PositionFlags) :
            Contains(feature_columns, PositionFlags[k]) =>
                Entry(PositionFlags[k]) =
                    Num(IF PositionFlags[k] = IndicatorOf(ret.player_data["position"])
                        THEN 1 ELSE 0)

\* the call went down the profile path with a stated position and projection
OnProfilePath ==
    /\ Returned
    /\ "position" \in DOMAIN ret.player_data
    /\ HasNumber(ret.player_data, "projectedPoints")
    /\ ret.player_data["position"] \in DOMAIN position_stats

\* mean * projected_points / 150
ScaledMean(mean, projected_points) ==
    RDiv(RMul(mean, projected_points), Num(150))

\* the features of the returned vector that come from the profile entry
ProfileFeatures(position) ==
    { f \in DOMAIN position_stats[position] :
        Contains(feature_columns, f) /\ ~IsNaN(position_stats[position][f]) }

\* C5 as stated: with a profile for the position, every feature of the entry that
\* is in the schema and whose mean is not missing is returned as
\* mean * projected_points / 150.
C5_EveryProfileFeatureIsScaledMean ==
    OnProfilePath =>
        \A f \in ProfileFeatures(ret.player_data["position"]) :
            Entry(f) = ScaledMean(position_stats[ret.player_data["position"]][f],
                                  ret.player_data["projectedPoints"])

\* C5 amended: with a profile for the position, every feature of the entry other
\* than games that is in the schema and whose mean is not missing is returned as
\* mean * projected_points / 150, and so as the mean itself at 150 points; games
\* is returned as 17.
C5_ProfileFeaturesButGamesAreScaledMean ==
    OnProfilePath =>
        \A f \in ProfileFeatures(ret.player_data["position"]) :
            /\ f # "games" =>
                /\ Entry(f) = ScaledMean(position_stats[ret.player_data["position"]][f],
                                         ret.player_data["projectedPoints"])
                /\ ret.player_data["projectedPoints"] = Num(150)
                     => Entry(f) = position_stats[ret.player_data["position"]][f]
            /\ f = "games" => Entry(f) = Num(17)

C5_Witness ==
    /\ OnProfilePath
    /\ ret.player_data["position"] = "RB"
    /\ ret.player_data["projectedPoints"] = Num(100)
    /\ Contains(feature_columns, "rushing_yards")
    /\ Entry("rushing_yards") = Rat(2, 3)
    /\ Entry("games") = Num(17)

\* C6: for the same position and profile, every profile-derived feature of the
\* vector built with 300 projected points is exactly twice the same feature of
\* the vector built with 150.
C6_LinearScaling ==
    (OnProfilePath /\ ret.player_data["projectedPoints"] = Num(300)) =>
        \A f \in ProfileFeatures(ret.player_data["position"]) \ {"games"} :
            Entry(f) =
                RMul(Num(2),
                     VectorFor(("projectedPoints" :> Num(150)) @@ ret.player_data)
                         .value[Index(feature_columns, f)])

C6_Witness ==
    /\ OnProfilePath
    /\ ret.player_data["position"] = "QB"
    /\ ret.player_data["projectedPoints"] = Num(300)
    /\ Contains(feature_columns, "passing_yards")
    /\ Entry("passing_yards") = Num(6)

\* C7: if the schema has a games feature, its entry in the returned vector is 17
\* for every descriptor, whatever the position, the projection and the games mean
\* of the profile.
C7_GamesIsFullSeason ==
    (Returned /\ Contains(feature_columns, "games")) => Entry("games") = Num(17)

C7_Witness ==
    /\ OnProfilePath
    /\ ret.player_data["projectedPoints"] = Num(300)
    /\ Contains(feature_columns, "games")
    /\ position_stats[ret.player_data["position"]]["games"] = Num(16)
    /\ Entry("games") = Num(17)

\* the baselines of the hardcoded per-position table
TableBaseline(position) ==
    CASE position = "QB" -> [passing_yards |-> 3500, passing_tds |-> 25,
                             completions |-> 350, attempts |-> 550,
                             interceptions |-> 10]
      [] position = "RB" -> [rushing_yards |-> 800, rushing_tds |-> 8,
                             rushing_attempts |-> 200, receiving_yards |-> 300,
                             receptions |-> 30, targets |-> 40]
      [] position = "WR" -> [receiving_yards |-> 900, receiving_tds |-> 7,
                             receptions |-> 70, targets |-> 110, rushing_yards |-> 50]
      [] position = "TE" -> [receiving_yards |-> 600, receiving_tds |-> 5,
                             receptions |-> 50, targets |-> 75]
      [] OTHER -> <<>>

\* the call went down the fallback path with a stated position and projection
OnFallbackPath ==
    /\ Returned
    /\ "position" \in DOMAIN ret.player_data
    /\ HasNumber(ret.player_data, "projectedPoints")
    /\ ret.player_data["position"] \notin DOMAIN position_stats

\* a position outside QB, RB, WR, TE gets no estimated statistic: every entry
\* but games is zero
NoEstimateOutsideTable ==
    (OnFallbackPath /\ IndicatorOf(ret.player_data["position"]) = "none") =>
        \A i \in 1..Len(feature_columns) :
            feature_columns[i] # "games" => ret.result.value[i] = Num(0)

\* C8 as stated: without a profile for the position, every statistic written from
\* the hardcoded table equals its baseline times projected_points / 150, without
\* exception, and a position outside the table gets no estimated statistic.
C8_EveryTableStatIsScaled ==
    /\ OnFallbackPath =>
         \A stat \in DOMAIN TableBaseline(ret.player_data["position"]) :
            Contains(feature_columns, stat) =>
                Entry(stat) =
                    ScaledMean(Num(TableBaseline(ret.player_data["position"])[stat]),
                               ret.player_data["projectedPoints"])
    /\ NoEstimateOutsideTable

\* C8 amended: without a profile for the position, every statistic written from
\* the hardcoded table other than the QB interceptions equals its baseline times
\* projected_points / 150; the QB interceptions are 10 for every projection; a
\* position outside the table gets no estimated statistic.
C8_TableStatsButInterceptionsAreScaled ==
    /\ OnFallbackPath =>
         \A stat \in DOMAIN TableBaseline(ret.player_data["position"]) :
            Contains(feature_columns, stat) =>
                Entry(stat) =
                    IF stat = "interceptions"
                    THEN Num(10)
                    ELSE ScaledMean(Num(TableBaseline(ret.player_data["position"])[stat]),
                                    ret.player_data["projectedPoints"])
    /\ NoEstimateOutsideTable

C8_Witness ==
    /\ OnFallbackPath
    /\ ret.player_data["position"] = "QB"
    /\ ret.player_data["projectedPoints"] = Num(300)
    /\ Contains(feature_columns, "interceptions")
    /\ Contains(feature_columns, "passing_yards")
    /\ Entry("interceptions") = Num(10)
    /\ Entry("passing_yards") = Num(7000)

\* the descriptor with one field set
With(player_data, key, value) == (key :> value) @@ player_data

\* C9 as stated: a descriptor whose position is missing or is an unrecognised
\* value such as 'UNKNOWN' gets the vector of the same descriptor with position RB.
C9_MissingOrUnknownPositionIsRB ==
    (IsCreate /\ feature_columns # None
        /\ ("position" \in DOMAIN ret.player_data
                => ret.player_data["position"] = "UNKNOWN"))
        => ret.result = VectorFor(With(ret.player_data, "position", "RB"))

\* C9 amended: a descriptor whose position is missing gets the vector of the same
\* descriptor with position RB; an unrecognised position such as 'UNKNOWN' is kept:
\* all its indicators are 0 and it gets no estimated statistic.
C9_MissingPositionIsRB ==
    /\ (IsCreate /\ feature_columns # None /\ "position" \notin DOMAIN ret.player_data)
         => ret.result = VectorFor(With(ret.player_data, "position", "RB"))
    /\ (Returned /\ "position" \in DOMAIN ret.player_data
            /\ ret.player_data["position"] = "UNKNOWN")
         => \A i \in 1..Len(feature_columns) :
               ret.result.value[i] =
                   IF feature_columns[i] = "games" THEN Num(17) ELSE Num(0)

C9_Witness ==
    /\ Returned
    /\ ret.player_data = ("projectedPoints" :> Num(300))
    /\ Contains(feature_columns, "is_rb")
    /\ Contains(feature_columns, "rushing_yards")
    /\ position_stats = <<>>
    /\ Entry("is_rb") = Num(1)
    /\ Entry("rushing_yards") = Num(1600)

\* C10: a descriptor without a projected-points value gets exactly the vector of
\* the same descriptor with 150 projected points, on the profile path and on the
\* fallback path.
C10_MissingProjectionIsNominal ==
    (IsCreate /\ feature_columns # None
        /\ "projectedPoints" \notin DOMAIN ret.player_data)
        => /\ ret.result.kind = "return"
           /\ ret.result = VectorFor(With(ret.player_data, "projectedPoints", Num(150)))

C10_Witness ==
    /\ Returned
    /\ ret.player_data = ("position" :> "QB")
    /\ "QB" \in DOMAIN position_stats
    /\ Contains(feature_columns, "passing_yards")
    /\ Entry("passing_yards") = Num(3)

\* the position create_player_features works with
EffectivePosition == IF "position" \in DOMAIN ret.player_data
                     THEN ret.player_data["position"] ELSE "RB"

\* the columns whose entry the builder may set for the descriptor of the call
SettableColumns ==
    SeqToSet(PositionFlags) \cup {"games"}
        \cup (IF EffectivePosition \in DOMAIN position_stats
              THEN ProfileFeatures(EffectivePosition)
              ELSE DOMAIN TableBaseline(EffectivePosition))

\* C11: every returned vector has a number in every entry, none missing, and
\* every entry that is not a position indicator, a profile-derived estimate, a
\* fallback-table estimate or games is exactly zero; an entry whose profile mean
\* is missing stays zero.
C11_NoMissingAndUnsetIsZero ==
    Returned =>
        \A i \in 1..Len(feature_columns) :
            /\ ~IsNaN(ret.result.value[i])
            /\ ret.result.value[i] # None
            /\ DOMAIN ret.result.value[i] = {"n", "d"}
            /\ feature_columns[i] \notin SettableColumns
                 => ret.result.value[i] = Num(0)

C11_Witness ==
    /\ Returned
    /\ EffectivePosition = "RB"
    /\ "RB" \in DOMAIN position_stats
    /\ Contains(feature_columns, "receptions")
    /\ Contains(feature_columns, "rushing_yards")
    /\ IsNaN(position_stats["RB"]["receptions"])
    /\ Entry("receptions") = Num(0)
    /\ Entry("rushing_yards") # Num(0)

IsAnalyze == ret.op = "analyze_trade_impact"

Analyzed == IsAnalyze /\ ret.result.kind = "return"

\* a number lies strictly above a whole number
Above(x, k) == ~IsNaN(x) /\ x.n > k * x.d

\* C12: the recommendation of analyze_trade_impact follows user_net_change by
\* exclusive lower bounds: above 10 excellent, above 5 good, above 0 slight
\* advantage, above -5 fairly even, above -10 favors the opponent, otherwise poor;
\* so exactly 10 is good, 5 slight advantage, 0 (equal totals, two empty lists)
\* fairly even, -5 favors the opponent and -10 poor.
C12_TiersByExclusiveLowerBounds ==
    Analyzed =>
        /\ ret.result.value.recommendation =
             (IF Above(ret.result.value.user_net_change, 10)
                 THEN "Excellent trade for you!"
              ELSE IF Above(ret.result.value.user_net_change, 5)
                 THEN "Good trade for you."
              ELSE IF Above(ret.result.value.user_net_change, 0)
                 THEN "Slight advantage to you."
              ELSE IF Above(ret.result.value.user_net_change, -5)
                 THEN "Fairly even trade."
              ELSE IF Above(ret.result.value.user_net_change, -10)
                 THEN "This trade favors your opponent."
              ELSE "Poor trade for you.")
        /\ ret.result.value.user_net_change = Num(10)
             => ret.result.value.recommendation = "Good trade for you."
        /\ ret.result.value.user_net_change = Num(5)
             => ret.result.value.recommendation = "Slight advantage to you."
        /\ ret.result.value.user_net_change = Num(0)
             => ret.result.value.recommendation = "Fairly even trade."
        /\ ret.result.value.user_net_change = Num(-5)
             => ret.result.value.recommendation = "This trade favors your opponent."
        /\ ret.result.value.user_net_change = Num(-10)
             => ret.result.value.recommendation = "Poor trade for you."
        /\ (ret.user_players = <<>> /\ ret.partner_players = <<>>)
             => ret.result.value.recommendation = "Fairly even trade."

C12_Witness ==
    /\ Analyzed
    /\ Len(ret.user_players) = 0
    /\ Len(ret.partner_players) = 1
    /\ ret.result.value.user_net_change = Num(10)
    /\ ret.result.value.recommendation = "Good trade for you."

\* the prediction of one player on the service as it is
PredictionFor(player_data) ==
    PredictFantasyPointsOn(model, scaler, feature_columns, position_stats, player_data)

\* the predictions of a list, added up left to right
SideSum(players) ==
    RSum([i \in 1..Len(players) |-> PredictionFor(players[i]).value])

IsCalculate == ret.op = "calculate_trade_value"

IsHeuristicTrade == ret.op = "analyze_trade"

\* the multipliers as the specification lists them
StatedMultiplier(position) ==
    CASE position = "QB" -> Rat(8, 10)
      [] position = "RB" -> Rat(12, 10)
      [] position = "WR" -> Rat(11, 10)
      [] position = "TE" -> Rat(10, 10)
      [] position = "K" -> Rat(5, 10)
      [] position = "D/ST" -> Rat(6, 10)
      [] OTHER -> Rat(10, 10)

\* the projected points a player states, 0 when it states none
StatedPoints(player) ==
    IF "projected_points" \in DOMAIN player THEN player["projected_points"] ELSE Num(0)

StatedPosition(player) ==
    IF "position" \in DOMAIN player THEN player["position"] ELSE "UNKNOWN"

\* every player of the list states a number or nothing as its projection
AllNumeric(players) ==
    \A i \in 1..Len(players) : IsNumber(StatedPoints(players[i]))

\* the sum over the players of projected points times position multiplier
WeightedSum(players) ==
    RSum([i \in 1..Len(players) |->
            RMul(StatedPoints(players[i]), StatedMultiplier(StatedPosition(players[i])))])

OneRB100 == << ("position" :> "RB") @@ ("projected_points" :> Num(100)) >>

OneK100 == << ("position" :> "K") @@ ("projected_points" :> Num(100)) >>

\* the worked example: one RB with 100 points against one K with 100 points
RBAgainstKExample ==
    /\ (IsCalculate /\ ret.players = OneRB100)
         => ret.result.value.total_value = Num(120)
    /\ (IsCalculate /\ ret.players = OneK100)
         => ret.result.value.total_value = Num(50)
    /\ (IsHeuristicTrade /\ ret.team1_players = OneRB100 /\ ret.team2_players = OneK100)
         => /\ ret.result.value.is_fair = FALSE
            /\ ret.result.value.winner = "team1"
            /\ ret.result.value.advantage = Num(70)

TotalsDifference ==
    RAbs(RSub(ret.result.value.team1_value.total_value,
              ret.result.value.team2_value.total_value))

\* fair exactly when the totals differ by at most 5.0
FairIffWithinThreshold ==
    IsHeuristicTrade =>
        (ret.result.value.is_fair <=> ~Above(TotalsDifference, 5))

\* C15: the heuristic analysis classifies a trade as fair exactly when the
\* absolute difference of the two total values is at most 5.0 (5.0 itself is
\* fair), and whenever is_fair is true the winner is 'tie' and the advantage 0.
C15_FairMeansTie ==
    /\ FairIffWithinThreshold
    /\ (IsHeuristicTrade /\ ret.result.value.is_fair)
         => /\ ret.result.value.winner = "tie"
            /\ ret.result.value.advantage = Num(0)

\* C16: two rosters whose total heuristic values are identical get is_fair true,
\* winner 'tie' and advantage 0, whatever the positions and the number of players
\* on each side.
C16_EqualTotalsTie ==
    (IsHeuristicTrade
        /\ ret.result.value.team1_value.total_value
             = ret.result.value.team2_value.total_value)
        => /\ ret.result.value.is_fair = TRUE
           /\ ret.result.value.winner = "tie"
           /\ ret.result.value.advantage = Num(0)
           /\ ret.result.value.recommendation = [text |-> "Accept"]

C16_Witness ==
    /\ IsHeuristicTrade
    /\ Len(ret.team1_players) = 2
    /\ Len(ret.team2_players) = 1
    /\ ret.team1_players[1] = OneRB100[1]
    /\ ret.team2_players[1] = ("position" :> "QB") @@ ("projected_points" :> Num(150))
    /\ ret.result.value.team1_value.total_value = Num(120)
    /\ ret.result.value.team2_value.total_value = Num(120)
    /\ ret.result.value.winner = "tie"

\* the player states no projection under the key: the field is absent, null or 0
HasNoProjection(player, key) ==
    \/ key \notin DOMAIN player
    \/ player[key] = None
    \/ player[key] = Num(0)

\* the players of a list that state a projection
Remaining(players, key) ==
    SelectSeq(players, LAMBDA player : ~HasNoProjection(player, key))

\* calculate_trade_value: a player without projection adds nothing and the side
\* total is the sum over the remaining players
HeuristicToleratesNoProjection ==
    (IsCalculate
        /\ \A i \in 1..Len(ret.players) :
              \/ HasNoProjection(ret.players[i], "projected_points")
              \/ IsNumber(ret.players[i]["projected_points"]))
        => ret.result.value.total_value
             = Round(WeightedSum(Remaining(ret.players, "projected_points")), 100)

\* analyze_trade_impact on a loaded service: it does not raise on a player
\* without projection and each side sum is the sum over the remaining players
ValuationToleratesNoProjection ==
    (IsAnalyze /\ Loaded)
        => /\ ret.result.kind = "return"
           /\ ret.result.value.user_giving_value
                = SideSum(Remaining(ret.user_players, "projectedPoints"))
           /\ ret.result.value.user_receiving_value
                = SideSum(Remaining(ret.partner_players, "projectedPoints"))

\* C17: neither strategy raises on a player whose projection is missing (absent
\* or null) or zero; such a player contributes zero to its side's total and every
\* other player of the list still contributes its own value.
C17_NoProjectionContributesZero ==
    /\ HeuristicToleratesNoProjection
    /\ ValuationToleratesNoProjection

\* the player states a projection under the key that is not a number
Malformed(player, key) == key \in DOMAIN player /\ ~IsNumber(player[key])

SomeMalformed(players, key) ==
    \E i \in 1..Len(players) : Malformed(players[i], key)

\* predict_fantasy_points and analyze_trade_impact raise on such a descriptor
ValuationRejectsMalformed ==
    /\ (ret.op = "predict_fantasy_points" /\ Malformed(ret.player_data, "projectedPoints"))
         => ret.result.kind = "raise"
    /\ (IsAnalyze /\ (\/ SomeMalformed(ret.user_players, "projectedPoints")
                      \/ SomeMalformed(ret.partner_players, "projectedPoints")))
         => ret.result.kind = "raise"

\* calculate_trade_value and the analyze-trade endpoint answer such a list with an
\* error
HeuristicRejectsMalformed ==
    /\ (IsCalculate /\ SomeMalformed(ret.players, "projected_points"))
         => ret.result.kind = "raise"
    /\ (IsHeuristicTrade /\ (\/ SomeMalformed(ret.team1_players, "projected_points")
                             \/ SomeMalformed(ret.team2_players, "projected_points")))
         => ret.result.kind = "raise"

\* C18: a descriptor with non-numeric projected points is answered with an error
\* and never with a numeric answer, by predict_fantasy_points and
\* analyze_trade_impact as by calculate_trade_value and the heuristic
\* analyze-trade endpoint.
C18_MalformedIsAnError ==
    /\ ValuationRejectsMalformed
    /\ HeuristicRejectsMalformed

\* what the call of a request returns when it runs alone on the service as it is
Sequentially(r) ==
    CASE r.op = "is_loaded" -> Return(IsLoadedValue)
      [] r.op = "create_player_features" ->
           CreatePlayerFeaturesOn(feature_columns, position_stats, r.player_data)
      [] r.op = "predict_fantasy_points" ->
           PredictFantasyPointsOn(model, scaler, feature_columns, position_stats,
                                  r.player_data)
      [] r.op = "analyze_trade_impact" ->
           AnalyzeTradeImpactOn(model, scaler, feature_columns, position_stats,
                                r.user_players, r.partner_players)

\* every finished request holds the result of its call run alone
ConcurrentResultsAreSequential ==
    \A r \in inflight : r.pc = "done" => r.local = Sequentially(r)

\* a step of a request leaves the model, the scaler, the schema and the profile
\* as they are
RequestsWriteNoSharedState ==
    [][inflight' # inflight
         => UNCHANGED <<model, scaler, feature_columns, position_stats>>]_vars

\* C19: after a successful load no call of create_player_features,
\* predict_fantasy_points, analyze_trade_impact or is_loaded, in any number and
\* any interleaving, changes the model, the scaler, the feature schema or the
\* position profile; each request writes only its own values, so concurrent
\* requests return what they return when run one after another.
C19_RequestsAreReadOnly ==
    /\ []ConcurrentResultsAreSequential
    /\ RequestsWriteNoSharedState

C19_Witness ==
    /\ Cardinality(inflight) = 2
    /\ position_stats # <<>>
    /\ \E r \in inflight : r.op = "predict_fantasy_points" /\ r.pc = "scaled"
    /\ \E r \in inflight : /\ r.op = "analyze_trade_impact"
                           /\ r.pc = "done"
                           /\ r.local.kind = "return"

IsTarget(column) == column = "fantasy_points" \/ column = "fantasy_points_ppr"

\* the position profile without its means of the target columns
WithoutTargetMeans(stats) ==
    [p \in DOMAIN stats |->
        [f \in { g \in DOMAIN stats[p] : ~IsTarget(g) } |-> stats[p][f]]]

\* C20: after a successful load the feature schema is the dataset's columns in
\* dataset order with fantasy_points and fantasy_points_ppr removed, and no
\* value derived from a target column is written into a feature vector, although
\* the position profile holds means of the target columns too.
C20_TargetsStayOutOfFeatures ==
    Loaded =>
        /\ feature_columns = SelectSeq(data_path.columns, LAMBDA c : ~IsTarget(c))
        /\ \A i \in 1..Len(feature_columns) : ~IsTarget(feature_columns[i])
        /\ Returned =>
             /\ Len(ret.result.value)
                  = Cardinality({ i \in 1..Len(data_path.columns) :
                                     ~IsTarget(data_path.columns[i]) })
             /\ ret.result
                  = CreatePlayerFeaturesOn(feature_columns,
                                           WithoutTargetMeans(position_stats),
                                           ret.player_data)

C20_Witness ==
    /\ Loaded
    /\ OnProfilePath
    /\ data_path.columns = WideColumns
    /\ ret.player_data["position"] = "QB"
    /\ ret.player_data["projectedPoints"] = Num(300)
    /\ position_stats["QB"]["fantasy_points"] = Num(30)
    /\ position_stats["QB"]["fantasy_points_ppr"] = Num(36)
    /\ Len(ret.result.value) = 17
    /\ Entry("passing_yards") = Num(6)

IsPredict == ret.op = "predict_fantasy_points"

\* the descriptor reduced to its position and its projectedPoints
LoadBearing(player_data) ==
    [k \in (DOMAIN player_data) \cap {"position", "projectedPoints"} |-> player_data[k]]

\* C21: the valuation of a player depends only on the descriptor's position and
\* projected points: a descriptor gets the feature vector and the prediction of
\* the descriptor that holds these two fields only, so any two descriptors that
\* agree on them and differ in other fields (id, name, team, injury status,
\* season points, lineup slot) get identical vectors and identical predictions
\* on the same service.
C21_OnlyPositionAndProjectionCount ==
    /\ IsCreate => ret.result = VectorFor(LoadBearing(ret.player_data))
    /\ IsPredict => ret.result = PredictionFor(LoadBearing(ret.player_data))

C21_Witness ==
    /\ IsPredict
    /\ Loaded
    /\ ret.result.kind = "return"
    /\ "injury_status" \in DOMAIN ret.player_data
    /\ ret.player_data["injury_status"] = "OUT"
    /\ ret.player_data["season_points"] = Num(300)
    /\ LoadBearing(ret.player_data)
         = ("position" :> "WR") @@ ("projectedPoints" :> Num(100))
    /\ "WR" \in DOMAIN position_stats

IsTransform == ret.op = "scaler.transform"

\* C22: applying the scaler to a vector whose length differs from the schema
\* length fails with an error instead of truncating or padding, and the vector
\* predict_fantasy_points hands to the scaler has exactly the schema length, which
\* is the length the scaler was fitted on whenever a prediction is returned.
C22_MisalignedVectorIsAnError ==
    /\ (IsTransform /\ feature_columns # None
            /\ Len(ret.features) # Len(feature_columns))
         => ret.result.kind = "raise"
    /\ (IsTransform /\ ret.result.kind = "return")
         => /\ Len(ret.features) = Len(feature_columns)
            /\ Len(ret.result.value) = Len(feature_columns)
    /\ (IsPredict /\ model # None /\ scaler # None
            /\ VectorFor(ret.player_data).kind = "return")
         => Len(VectorFor(ret.player_data).value) = Len(feature_columns)
    /\ (IsPredict /\ ret.result.kind = "return")
         => /\ scaler.fitted
            /\ scaler.n_features = Len(VectorFor(ret.player_data).value)

C22_Witness ==
    /\ IsTransform
    /\ Loaded
    /\ scaler.fitted
    /\ Len(feature_columns) = 17
    /\ Len(ret.features) = 16
    /\ ret.result = Raise("ValueError: n_features")

\* the loaded service valued a record of the league data source
IsSupplied ==
    /\ Loaded
    /\ Returned
    /\ DOMAIN ret.player_data = DOMAIN ParsePlayerFromApi(Quarterback(Num(150)))

\* the features of the vector that are scaled by the projection for the position
ScaledFeatures(position) ==
    IF position \in DOMAIN position_stats
    THEN { f \in ProfileFeatures(position) \ {"games"} :
             position_stats[position][f] # Num(0) }
    ELSE { f \in DOMAIN TableBaseline(position) \ {"interceptions"} :
             Contains(feature_columns, f) }

\* the record with another projection
Projecting(player_data, projection) ==
    [player_data EXCEPT !["projected_points"] = projection]

\* C23: a record of the league data source, carrying its projection in the field
\* projected_points with value X, is valued with scale factor X / 150: the vector
\* built from the record that _parse_player_from_api produces differs between
\* X = 150 and X = 300 on every scaled feature.
C23_SuppliedProjectionIsRead ==
    (IsSupplied /\ ret.player_data["projected_points"] = Num(300)) =>
        \A f \in ScaledFeatures(ret.player_data["position"]) :
            /\ Entry(f) # VectorFor(Projecting(ret.player_data, Num(150)))
                              .value[Index(feature_columns, f)]
            /\ Entry(f) = RMul(Num(2),
                               VectorFor(Projecting(ret.player_data, Num(150)))
                                   .value[Index(feature_columns, f)])

\* the four primary positions that occur in the rows of a frame
PrimaryPresent(df) ==
    { p \in {"QB", "RB", "WR", "TE"} : \E r \in df.rows : r.position = p }

\* the profile holds, for exactly the primary positions of the frame, the mean of
\* every numeric column over the position's rows
ProfileOf(df) ==
    /\ DOMAIN position_stats = PrimaryPresent(df)
    /\ \A p \in PrimaryPresent(df) :
          /\ DOMAIN position_stats[p] = SeqToSet(df.columns) \ {"position"}
          /\ \A c \in DOMAIN position_stats[p] :
                position_stats[p][c] = Mean({ r \in df.rows : r.position = p }, c)

\* the load of a dataset with rows and a position column has run
LoadedWithPositionColumn ==
    /\ load_result # "pending"
    /\ model_path # Missing
    /\ data_path # Missing
    /\ data_path.rows # {}
    /\ Contains(data_path.columns, "position")

\* _calculate_position_stats on a frame with position labels leaves the profile
\* of the frame
StatsCallLeavesProfile ==
    ret.op = "_calculate_position_stats" => ProfileOf(Labelled(data_path))

\* C24: loading a historical dataset that has a position column holding the
\* position codes succeeds and leaves the profile store with an entry for exactly
\* those of QB, RB, WR, TE that occur in the column, each entry the per-column
\* mean of the position's rows, and with no entry for any other position such as
\* K or D/ST.
C24_LoadWithPositionColumnFillsProfile ==
    LoadedWithPositionColumn =>
        /\ load_result = "True"
        /\ ProfileOf(data_path)
        /\ "K" \notin DOMAIN position_stats

\* the vector of the hardcoded fallback path: indicators, the estimates of the
\* per-position table, games
FallbackVector(player_data) ==
    Let(EstimateBasicStats(
            SetPositionFlags(Zeros(Len(feature_columns)), feature_columns,
                             PositionOf(player_data), PositionFlags),
            feature_columns, PositionOf(player_data), ProjectedPointsOf(player_data)),
        LAMBDA estimated :
            IF estimated.kind = "raise" THEN estimated
            ELSE Return(SetGames(estimated.value, feature_columns)))

\* the load of a readable model and of a dataset with rows, with a feature
\* column and without a position column has run
LoadedWithoutPositionColumn ==
    /\ load_result # "pending"
    /\ model_path # Missing
    /\ data_path # Missing
    /\ data_path.rows # {}
    /\ FeatureColumns(data_path) # <<>>
    /\ ~Contains(data_path.columns, "position")

RECURSIVE BucketSum(_, _)
\* the values of a breakdown over a set of positions, added up
BucketSum(breakdown, positions) ==
    IF positions = {} THEN Num(0)
    ELSE Let(CHOOSE p \in positions : TRUE, LAMBDA p :
             RAdd(breakdown[p], BucketSum(breakdown, positions \ {p})))

\* the values of the position_breakdown of the returned result, added up
BreakdownTotal ==
    BucketSum(ret.result.value.position_breakdown,
              DOMAIN ret.result.value.position_breakdown)

\* C26: for every player list, the values in position_breakdown returned by
\* calculate_trade_value sum to the same amount as the players' total value
\* (total_value before rounding): every player counted in the total is counted
\* in exactly one position bucket.
C26_BreakdownSumsToTotal ==
    /\ (IsCalculate /\ AllNumeric(ret.players))
         => /\ BreakdownTotal = WeightedSum(ret.players)
            /\ Round(BreakdownTotal, 100) = ret.result.value.total_value
    /\ (IsCalculate /\ ~AllNumeric(ret.players))
         => BreakdownTotal = ret.result.value.total_value

\* the same for the lists whose players all have one of the six bucket positions
BucketedListsSumToTotal ==
    (IsCalculate /\ AllNumeric(ret.players)
        /\ \A i \in 1..Len(ret.players) :
              StatedPosition(ret.players[i]) \in BreakdownPositions)
        => BreakdownTotal = WeightedSum(ret.players)

IsParseTeam == ret.op = "_parse_team_from_api"

\* the records of the players of a roster whose parse returns a record, in
\* roster order
RecordsInOrder(roster) ==
    SelectSeq([i \in 1..Len(roster) |-> ParsePlayerFromApi(roster[i])],
              LAMBDA player_data : player_data # None)

\* C27: for a team roster of any length, with _parse_player_from_api returning
\* either a record or nothing for each player, the roster returned by
\* _parse_team_from_api holds the record of every player whose parse returned a
\* record exactly once and in roster order: the two-phase loop (first four
\* players, then the rest) skips no player and duplicates none.
C27_RosterParsedOnceInOrder ==
    IsParseTeam =>
        /\ ret.result.value.roster = RecordsInOrder(ret.team["roster"])
        /\ Len(ret.result.value.roster)
             = Cardinality({ i \in 1..Len(ret.team["roster"]) :
                               ret.team["roster"][i] # Unparsable })

C27_Witness ==
    /\ IsParseTeam
    /\ Len(ret.team["roster"]) = 5
    /\ ret.team["roster"][3] = Unparsable
    /\ ret.team["roster"][4] = Reserve
    /\ ret.team["roster"][5] = Quarterback(Num(150))
    /\ Len(ret.result.value.roster) = 4
    /\ ret.result.value.roster[3] = ParsePlayerFromApi(Reserve)
    /\ ret.result.value.roster[4] = ParsePlayerFromApi(Quarterback(Num(150)))

IsConnect == ret.op = "connect_with_cookies"

\* the client returned a league for the season and the league's data parses
Succeeds(api, year, user_swid) ==
    /\ api[year] # Refused
    /\ ParseLeagueFromApi(api[year], user_swid).kind = "return"

\* the seasons of the call, in the order 2025, 2024, 2023, that succeed
SucceedingSeasons ==
    IF ret.league_id # "12345" THEN {}
    ELSE { i \in 1..3 : Succeeds(ret.api, <<2025, 2024, 2023>>[i], Unquote(ret.swid)) }

\* the call returns the parsed data of the first season that succeeds, and
\* raises if none does
FirstSucceedingSeasonIsReturned ==
    IsConnect =>
        IF SucceedingSeasons = {} THEN ret.result.kind = "raise"
        ELSE ret.result =
               ParseLeagueFromApi(
                   ret.api[<<2025, 2024, 2023>>[CHOOSE i \in SucceedingSeasons :
                                                  \A j \in SucceedingSeasons : i <= j]],
                   Unquote(ret.swid))

\* a call that raises leaves current_league as it was before the call
RaisingConnectKeepsLeague ==
    [][(ret = Idle /\ ret'.op = "connect_with_cookies" /\ ret'.result.kind = "raise")
          => current_league' = current_league]_vars

\* current_league is a league whose data parses
CurrentLeagueParses ==
    current_league # None
        => ParseLeagueFromApi(current_league, "").kind = "return"

\* C28: connect_with_cookies tries the seasons 2025, 2024, 2023 in that order and
\* returns the parsed data of the first season whose connection and parse both
\* succeed; if the call raises, current_league still holds the value it had
\* before the call, so current_league only ever refers to a league whose data
\* was successfully returned to a caller.
C28_RaisingConnectLeavesNoLeague ==
    /\ []FirstSucceedingSeasonIsReturned
    /\ RaisingConnectKeepsLeague
    /\ []CurrentLeagueParses

IsRoster == ret.op = "get_team_roster"

IsSelect == ret.op = "select_team"

\* the team id a request asks for; 0 when the selection names none that is a
\* number
RequestedId ==
    IF IsRoster THEN ret.team_id
    ELSE IF "team_id" \in DOMAIN ret.team_selection
            /\ ret.team_selection["team_id"] \in {"7", "9", "3"}
         THEN IntOf(ret.team_selection["team_id"])
         ELSE 0

\* a league is connected and one of its teams has the id
TeamExists(team_id) ==
    /\ current_league # None
    /\ HasAttr(current_league, "teams")
    /\ \E i \in 1..Len(current_league["teams"]) :
          current_league["teams"][i]["team_id"] = team_id

\* a selection that names a team id
NamesTeam ==
    IsSelect /\ "team_id" \in DOMAIN ret.team_selection
             /\ ret.team_selection["team_id"] \in {"7", "9", "3"}

\* team data is returned only for a connected league and an existing team id
DataOnlyForExistingTeam ==
    ((IsRoster \/ IsSelect) /\ ret.response.status = 200)
        => /\ TeamExists(RequestedId)
           /\ IsRoster => ret.response.body.team.id = RequestedId
           /\ IsSelect => ret.response.body.selected_team.id = RequestedId

\* without a league every request is answered with status 400
NoLeagueIsStatus400 ==
    ((IsRoster \/ IsSelect) /\ current_league = None) => ret.response.status = 400

\* C29: the roster and team-selection endpoints answer with status 400 'No
\* league connected' for every request made while no league is connected, and
\* with status 404 'Team not found' when a league is connected but no team has
\* the requested id; they return team data only for a connected league and an
\* existing team id.
C29_NoLeague400NoTeam404 ==
    /\ ((IsRoster \/ NamesTeam) /\ current_league = None)
         => /\ ret.response.status = 400
            /\ ret.response.detail = "No league connected"
    /\ ((IsRoster \/ NamesTeam) /\ current_league # None
            /\ HasAttr(current_league, "teams") /\ ~TeamExists(RequestedId))
         => /\ ret.response.status = 404
            /\ ret.response.detail = "Team not found"
    /\ DataOnlyForExistingTeam

====
